---- MODULE Spec2Model ----
(***************************************************************************)
(* Offline-capable workout tracker: the WorkoutTracker component           *)
(* (src/unnamed/part_000) driving the GoogleSheetsService that offers      *)
(* saveWorkoutData (src/src/components/GoogleAuth.jsx, lines 122-356),     *)
(* with the row decoders that service calls and                            *)
(* src/src/services/googleSheets.js defines.                               *)
(*                                                                         *)
(* React state is kept apart from the values the handlers were created     *)
(* with: a handler reads the state of the render it belongs to             *)
(* (`rendered`), an asynchronous continuation keeps the values it          *)
(* captured when it started (the c* fields of a task).  A state update     *)
(* made outside a discrete user event (the online/offline listeners, the   *)
(* continuation of an await) is committed by a later Render step.          *)
(*                                                                         *)
(* The remote store is the pair of tables below their header row.  A       *)
(* record is abstracted to its date field, the names of its exercises      *)
(* (each with at least one set) and the modality of its cardio session     *)
(* ("" for the empty session).                                             *)
(*                                                                         *)
(* The TypeScript GoogleSheetsService, which keeps its bearer token in     *)
(* localStorage, exists in two versions (src/unnamed/part_002 and          *)
(* src/src/services/googleSheets.ts) that differ in fetchSheetData; its    *)
(* read path is specified separately (GatewaySpec), together with the      *)
(* GoogleAuth component that stores the token                              *)
(* (src/src/components/GoogleAuth.tsx).                                    *)
(***************************************************************************)
EXTENDS Integers, Sequences, FiniteSets, TLC

\* ------------------------------------------------------------- bounds
MaxTasks == 2        \* asynchronous operations in flight together
MaxPending == 3      \* entries of pendingChanges
MaxSyncQueue == 2    \* entries of the service's syncQueue
MaxRows == 1         \* rows below the header of each remote table
MaxEvents == 2       \* connectivity events queued by the host
MaxInputs == 5       \* host and user inputs in a run
MaxTokens == 2       \* access tokens the token client hands out
MaxCalls == 2        \* getWorkoutData calls of the gateway in flight together
MaxMonth == 12       \* months of the date cells tried
MaxDay == 31         \* days of the date cells tried
MaxColumn == 701     \* zero-based column indices tried (ZZ)
MaxSets == 3         \* sets of an exercise

\* ------------------------------------------------------------- data
Dates == {"2024-03-14", "2024-03-15"}
NoDate == "undefined"
Absent == [kind |-> "absent"]

Workout(d, ex, c) == [kind |-> "workout", date |-> d, exercises |-> ex, cardio |-> c]
Change(d, w) == [kind |-> "change", date |-> d, workout |-> w]
QueueEntry(d, p) == [date |-> d, workoutData |-> p]

\* What the Save button can hand to handleSave: a record for the selected
\* date d that carries its date (types/workout.ts) or carries none (the
\* result of getWorkoutData has no date field).
Inputs(d) == {Workout(d, <<"squat">>, "run"), Workout(NoDate, <<"squat">>, "")}

AllInputs == UNION {Inputs(d) : d \in Dates}

TaskIds == 1..MaxTasks
Idle == [kind |-> "idle"]

\* formatDate: the "<month>/<day>" key of an ISO date; an undefined date
\* gives an Invalid Date, whose month and day are NaN.
formatDate(d) ==
  CASE d = "2024-03-14" -> "3/14"
    [] d = "2024-03-15" -> "3/15"
    [] OTHER -> "NaN/NaN"

\* matchesDate on the keys formatDate writes: the target must contain
\* digits/digits, and the row's date must equal it.
matchesDate(rowDate, targetDate) ==
  /\ rowDate # ""
  /\ targetDate # "NaN/NaN"
  /\ rowDate = targetDate

RECURSIVE NamesOf(_)
NamesOf(rows) ==
  IF rows = <<>> THEN <<>> ELSE <<Head(rows).name>> \o NamesOf(Tail(rows))

\* processWorkoutRows: one entry per matching row that has a name.
processWorkoutRows(rows, targetDate) ==
  NamesOf(SelectSeq(rows, LAMBDA r : matchesDate(r.date, targetDate) /\ r.name # ""))

\* processCardioRows: the first matching row, or null ("" here, which the
\* caller replaces by the empty session).
processCardioRows(rows, targetDate) ==
  LET m == SelectSeq(rows, LAMBDA r : matchesDate(r.date, targetDate))
  IN IF m = <<>> THEN "" ELSE Head(m).modality

\* The rows updateWorkoutData appends for a record.
RECURSIVE WorkoutRows(_, _)
WorkoutRows(key, names) ==
  IF names = <<>> THEN <<>>
  ELSE <<[date |-> key, name |-> Head(names)]>> \o WorkoutRows(key, Tail(names))

CardioRow(key, w) == [date |-> key, modality |-> w.cardio]

\* Object.values(workoutData.cardio).some(v => v)
HasCardio(w) == w.cardio # ""

\* ------------------------------------------------------------- state
VARIABLES
  navOnline,       \* window.navigator.onLine
  events,          \* online/offline events the host has queued
  isOnline,        \* React state of WorkoutTracker
  date,
  workout,
  pendingChanges,
  isSaving,
  loading,
  error,
  rendered,        \* the state the current handlers were created with
  cache,           \* localStorage workout_<date>
  lsPending,       \* localStorage pendingChanges
  syncQueue,       \* localStorage syncQueue
  remoteWorkout,   \* 'workout log' rows below the header
  remoteCardio,    \* 'cardio log' rows below the header
  tasks,           \* asynchronous operations suspended at an await
  lastOp,          \* the report of the operation the last step finished
  used,            \* the number of host and user inputs the run has consumed
  offlineWrite,    \* per date, the last record written while isOnline has been false
  service,         \* the version of the TypeScript service in use
  gapi_access_token, \* localStorage gapi_access_token (NoToken when not set)
  issued,          \* the number of tokens handed out so far
  calls,           \* getWorkoutData calls of the gateway suspended at a fetch
  lastCall,        \* the report of the gateway call the last step finished
  applied,         \* the last application of a function of the codec, with its result
  isAuthenticated, \* WorkoutTracker's isAuthenticated
  renderDue,       \* a state setter changed the tracker's state since its last render
  effects          \* the effects React has scheduled and not yet run

vars == <<navOnline, events, isOnline, date, workout, pendingChanges, isSaving,
          loading, error, rendered, cache, lsPending, syncQueue, remoteWorkout,
          remoteCardio, tasks, lastOp, used, offlineWrite,
          service, gapi_access_token, issued, calls, lastCall, applied,
          isAuthenticated, renderDue, effects>>

trackerVars == <<navOnline, events, isOnline, date, workout, pendingChanges, isSaving,
                 loading, error, rendered, cache, lsPending, syncQueue, remoteWorkout,
                 remoteCardio, tasks, lastOp, used, offlineWrite>>
gwVars == <<service, gapi_access_token, issued, calls, lastCall>>
authVars == <<isAuthenticated, renderDue, effects>>

Snapshot(o, d, p, s) == [isOnline |-> o, date |-> d, pendingChanges |-> p, isSaving |-> s]

FreeIds == {t \in TaskIds : tasks[t].kind = "idle"}

\* JSON.parse(localStorage.getItem('pendingChanges')) when present.
StoredPending == IF lsPending = Absent THEN <<>> ELSE lsPending.items
Stored(q) == [kind |-> "stored", items |-> q]

Task(kind, pc, cd, co, cp, arg, idx, res) ==
  [kind |-> kind, pc |-> pc, cDate |-> cd, cOnline |-> co, cPending |-> cp,
   arg |-> arg, idx |-> idx, res |-> res]

\* The report of the operation that finished in the last step (what its
\* caller observed); NoOp after a step that finished none.
NoOp == [op |-> "none"]
\* A read: its closure (date, online), whether it called the network, which
\* fetch failed, what it did ("shown" rec, "error", or "silent"), and the
\* operation it ran for (via, with the record that operation sent).
LoadOp(d, o, net, failed, result, rec, via, arg) ==
  [op |-> "load", date |-> d, online |-> o, net |-> net, failed |-> failed,
   result |-> result, rec |-> rec, via |-> via, arg |-> arg]
SaveOp(d, o, net, result, rec) ==
  [op |-> "save", date |-> d, online |-> o, net |-> net,
   result |-> result, rec |-> rec]
SyncOp(result, k, q) ==
  [op |-> "sync", result |-> result, failedAt |-> k, queue |-> q]

\* The gateway: the two versions of the service, the token values
\* (getItem returns null when the key is not set), its suspended calls and
\* the report of a finished fetchSheetData.
Services == {"part_002", "googleSheets.ts"}
NoToken == 0
Tokens == 1..MaxTokens
CallIds == 1..MaxCalls
NoCall == [stage |-> "none"]
Call(stage, tok) == [stage |-> stage, token |-> tok]
NoRead == [op |-> "none"]
ReadOp(stage, tok, status, raised) ==
  [op |-> "read", stage |-> stage, token |-> tok, status |-> status, raised |-> raised]
WriteOp(tok, status, written, raised) ==
  [op |-> "write", token |-> tok, status |-> status, written |-> written, raised |-> raised]

\* No function of the codec applied yet.
NoApply == [fn |-> "none"]

\* The tracker with GoogleAuth left out: signed out, rendered, no effect
\* scheduled.
AuthAtRest ==
  /\ isAuthenticated = FALSE
  /\ renderDue = FALSE
  /\ effects = <<>>

\* The gateway before any call, without a token.
GatewayIdle ==
  /\ gapi_access_token = NoToken
  /\ issued = 0
  /\ calls = [i \in CallIds |-> NoCall]
  /\ lastCall = NoRead

\* What an earlier session can have left in localStorage: nothing, or two
\* offline edits of the first date (queued, the later one cached).
EarlierSessions ==
  { <<>>,
    << Change("2024-03-14", Workout("2024-03-14", <<"squat">>, "run")),
       Change("2024-03-14", Workout(NoDate, <<"squat">>, "")) >> }

\* The component after mount: isOnline from navigator.onLine, pendingChanges
\* from localStorage (the mount effect), the first loadWorkoutData started.
Init ==
  /\ navOnline \in BOOLEAN
  /\ events = <<>>
  /\ isOnline = navOnline
  /\ date = "2024-03-14"
  /\ pendingChanges \in EarlierSessions
  /\ isSaving = FALSE
  /\ loading = navOnline
  /\ error = "none"
  /\ rendered = Snapshot(navOnline, "2024-03-14", pendingChanges, FALSE)
  /\ lsPending = IF pendingChanges = <<>> THEN Absent ELSE Stored(pendingChanges)
  /\ cache = [d \in Dates |->
                IF d = "2024-03-14" /\ pendingChanges # <<>>
                THEN pendingChanges[Len(pendingChanges)].workout ELSE Absent]
  /\ workout = IF navOnline THEN Absent ELSE cache["2024-03-14"]
  /\ syncQueue = <<>>
  /\ remoteWorkout = <<>>
  /\ remoteCardio = <<>>
  /\ tasks = [t \in TaskIds |->
                IF t = 1 /\ navOnline
                THEN Task("load", "fetchW", "2024-03-14", TRUE, <<>>, Absent, 0, <<>>)
                ELSE Idle]
  /\ lastOp = NoOp
  /\ used = 0
  /\ offlineWrite = [d \in Dates |-> Absent]
  /\ service = "part_002"
  /\ GatewayIdle
  /\ applied = NoApply
  /\ AuthAtRest

\* ------------------------------------------------------------- reads
\* A variant of the cache test of loadWorkoutData with isOnline not negated.
CacheFirstWhenOnline(co, cached) == co /\ cached # Absent

\* loadWorkoutData's first test: !isOnline && cachedData.
OfflineWithCache(co, cached) == ~co /\ cached # Absent

\* A variant of the fallback of getWorkoutData that never consults the cache.
FallbackThrows(cached) == "throw"

\* getWorkoutData when the 'workout log' fetch failed: the cache entry when
\* there is one, the error otherwise.
Fallback(cached) == IF cached # Absent THEN "cached" ELSE "throw"

\* A variant of setCachedData that stores nothing.
setCachedDataDropped(c, d, rec) == c

\* setCachedData(date, data), repeated by loadWorkoutData's setItem.
setCachedData(c, d, rec) == [c EXCEPT ![d] = rec]

\* loadWorkoutData up to its first network call, for the closure (cd, co).
\* own is the task that runs it (0 for a fresh call), slot the task that
\* waits for the response.  Branches, in the order of the code:
\*   offline with a cache entry: show it; online: getWorkoutData, which
\*   answers from the cache or throws when navigator.onLine is false and
\*   otherwise asks for the token and fetches, or, when getAuthToken throws,
\*   sends nothing and lands in its catch block (the cache entry or the
\*   error); offline without a cache entry: neither branch runs.
LoadStart(own, slot, kind, cd, co) ==
  LET cached == cache[cd]
      rest == IF own = 0 THEN tasks ELSE [tasks EXCEPT ![own] = Idle]
      fin == IF kind = "load" THEN isSaving ELSE FALSE
      arg == IF own = 0 THEN Absent ELSE tasks[own].arg
  IN
  IF OfflineWithCache(co, cached) THEN
       /\ workout' = cached
       /\ error' = "none"
       /\ tasks' = rest
       /\ isSaving' = fin
       /\ loading' = FALSE
       /\ lastOp' = LoadOp(cd, co, FALSE, "none", "shown", cached, kind, arg)
  ELSE IF co /\ ~navOnline /\ cached # Absent THEN
       /\ workout' = cached
       /\ error' = "none"
       /\ tasks' = rest
       /\ isSaving' = fin
       /\ loading' = FALSE
       /\ lastOp' = LoadOp(cd, co, FALSE, "none", "shown", cached, kind, arg)
  ELSE IF co /\ ~navOnline THEN
       /\ workout' = workout
       /\ error' = "load"
       /\ tasks' = rest
       /\ isSaving' = fin
       /\ loading' = FALSE
       /\ lastOp' = LoadOp(cd, co, FALSE, "none", "error", Absent, kind, arg)
  ELSE IF co THEN
       \/ /\ slot # 0
          /\ workout' = workout
          /\ error' = "none"
          /\ tasks' = [tasks EXCEPT ![slot] = Task(kind, "fetchW", cd, co, <<>>, arg, 0, <<>>)]
          /\ isSaving' = isSaving
          /\ loading' = TRUE
          /\ lastOp' = NoOp
       \/ /\ workout' = IF Fallback(cached) = "cached" THEN cached ELSE workout
          /\ error' = IF Fallback(cached) = "cached" THEN "none" ELSE "load"
          /\ tasks' = rest
          /\ isSaving' = fin
          /\ loading' = FALSE
          /\ lastOp' = IF Fallback(cached) = "cached"
                       THEN LoadOp(cd, co, FALSE, "auth", "shown", cached, kind, arg)
                       ELSE LoadOp(cd, co, FALSE, "auth", "error", Absent, kind, arg)
  ELSE
       /\ workout' = workout
       /\ error' = "none"
       /\ tasks' = rest
       /\ isSaving' = fin
       /\ loading' = FALSE
       /\ lastOp' = LoadOp(cd, co, FALSE, "none", "silent", Absent, kind, arg)

\* The response of a fetch or an append: a request cannot succeed while the
\* browser reports that it is offline.
Outcomes == IF navOnline THEN {"ok", "fail"} ELSE {"fail"}

\* The finally block of handleSave / syncPendingChanges.
Finally(t) == IF tasks[t].kind = "load" THEN isSaving ELSE FALSE

\* getWorkoutData after the 'workout log' response: a failure (non-ok
\* response, rejected fetch, getAuthToken throwing) returns the cache entry
\* or throws; success decodes the rows and goes on to the 'cardio log'.
workoutResponse(t, out) ==
  LET c == tasks[t]
      cached == cache[c.cDate]
  IN
  /\ UNCHANGED <<used, offlineWrite>>
  /\ c.kind # "idle" /\ c.pc = "fetchW"
  /\ out \in Outcomes
  /\ IF out = "ok" THEN
        /\ tasks' = [tasks EXCEPT ![t].pc = "fetchC",
                                  ![t].res = processWorkoutRows(remoteWorkout, formatDate(c.cDate))]
        /\ lastOp' = NoOp
        /\ UNCHANGED <<workout, error, isSaving, loading>>
     ELSE IF Fallback(cached) = "cached" THEN
        /\ workout' = cached
        /\ tasks' = [tasks EXCEPT ![t] = Idle]
        /\ isSaving' = Finally(t)
        /\ loading' = FALSE
        /\ lastOp' = LoadOp(c.cDate, c.cOnline, TRUE, "workout", "shown", cached, c.kind, c.arg)
        /\ UNCHANGED error
     ELSE
        /\ error' = "load"
        /\ tasks' = [tasks EXCEPT ![t] = Idle]
        /\ isSaving' = Finally(t)
        /\ loading' = FALSE
        /\ lastOp' = LoadOp(c.cDate, c.cOnline, TRUE, "workout", "error", Absent, c.kind, c.arg)
        /\ UNCHANGED workout
  /\ UNCHANGED <<navOnline, events, isOnline, date, pendingChanges, rendered,
                 cache, lsPending, syncQueue, remoteWorkout, remoteCardio>>
FetchWorkoutDone(t, out) ==
  /\ UNCHANGED <<gwVars, applied, authVars>>
  /\ workoutResponse(t, out)

\* getWorkoutData after the 'cardio log' response: a failure is logged and
\* the read continues with the empty session.  The result is cached
\* (setCachedData, and again by loadWorkoutData) and shown.
cardioResponse(t, out) ==
  LET c == tasks[t]
      cardio == IF out = "ok" THEN processCardioRows(remoteCardio, formatDate(c.cDate)) ELSE ""
      result == Workout(NoDate, c.res, cardio)
  IN
  /\ UNCHANGED <<used, offlineWrite>>
  /\ c.kind # "idle" /\ c.pc = "fetchC"
  /\ out \in Outcomes
  /\ cache' = setCachedData(cache, c.cDate, result)
  /\ workout' = result
  /\ tasks' = [tasks EXCEPT ![t] = Idle]
  /\ isSaving' = Finally(t)
  /\ loading' = FALSE
  /\ lastOp' = LoadOp(c.cDate, c.cOnline, TRUE, IF out = "ok" THEN "none" ELSE "cardio",
                      "shown", result, c.kind, c.arg)
  /\ UNCHANGED <<navOnline, events, isOnline, date, pendingChanges, error, rendered,
                 lsPending, syncQueue, remoteWorkout, remoteCardio>>
FetchCardioDone(t, out) ==
  /\ UNCHANGED <<gwVars, applied, authVars>>
  /\ cardioResponse(t, out)

\* ------------------------------------------------------------- writes
\* updateWorkoutData's catch block: queue the call, then rethrow into
\* handleSave's catch and finally.
SaveFailed(t) ==
  LET c == tasks[t] IN
  /\ Len(syncQueue) < MaxSyncQueue
  /\ syncQueue' = Append(syncQueue, QueueEntry(c.arg.date, c.arg))
  /\ error' = "save"
  /\ isSaving' = FALSE
  /\ tasks' = [tasks EXCEPT ![t] = Idle]
  /\ lastOp' = SaveOp(c.cDate, c.cOnline, TRUE, "error", c.arg)

\* A variant of newPendingChanges that keeps one entry per date.
newPendingChangesMerged(q, change) ==
  Append(SelectSeq(q, LAMBDA c : c.date # change.date), change)

\* [...pendingChanges, change]
newPendingChanges(q, change) == Append(q, change)

\* handleSave(updatedWorkout), called from the Save button (disabled while
\* isSaving) with the closure of the current render.
\*   isOnline: saveWorkoutData(r) = updateWorkoutData(r.date, r), which
\*   queues the call and returns when navigator.onLine is false and starts
\*   the 'workout log' append otherwise; then loadWorkoutData.
\*   not isOnline: the change is appended to the closure's pendingChanges,
\*   stored, and the record is cached and shown.
handleSave(r) ==
  LET cd == rendered.date
      new == newPendingChanges(rendered.pendingChanges, Change(cd, r))
  IN
  /\ UNCHANGED <<gwVars, applied, authVars>>
  /\ used < MaxInputs
  /\ used' = used + 1
  /\ ~rendered.isSaving
  /\ r \in Inputs(cd)
  /\ IF rendered.isOnline THEN
       \E t \in FreeIds :
         /\ t = CHOOSE x \in FreeIds : \A y \in FreeIds : x <= y
         /\ isSaving' = TRUE
         /\ rendered' = [rendered EXCEPT !.isSaving = TRUE]
         /\ IF ~navOnline THEN
              /\ Len(syncQueue) < MaxSyncQueue
              /\ syncQueue' = Append(syncQueue, QueueEntry(r.date, r))
              /\ tasks' = [tasks EXCEPT ![t] = Task("save", "reload", cd, TRUE, <<>>, Absent, 0, <<>>)]
              /\ lastOp' = SaveOp(cd, TRUE, FALSE, "deferred", r)
            ELSE
              /\ Len(remoteWorkout) < MaxRows /\ Len(remoteCardio) < MaxRows
              /\ tasks' = [tasks EXCEPT ![t] = Task("save", "appendW", cd, TRUE, <<>>, r, 0, <<>>)]
              /\ lastOp' = NoOp
              /\ UNCHANGED syncQueue
         /\ UNCHANGED <<pendingChanges, lsPending, cache, workout, offlineWrite>>
     ELSE
       /\ Len(rendered.pendingChanges) < MaxPending
       /\ pendingChanges' = new
       /\ lsPending' = Stored(new)
       /\ cache' = [cache EXCEPT ![cd] = r]
       /\ workout' = r
       /\ isSaving' = FALSE
       /\ rendered' = [rendered EXCEPT !.pendingChanges = new]
       /\ lastOp' = SaveOp(cd, FALSE, FALSE, "enqueued", r)
       /\ offlineWrite' = IF isOnline THEN offlineWrite ELSE [offlineWrite EXCEPT ![cd] = r]
       /\ UNCHANGED <<syncQueue, tasks>>
  /\ UNCHANGED <<navOnline, events, isOnline, date, loading, error, remoteWorkout,
                 remoteCardio>>

\* updateWorkoutData after the 'workout log' append: a failure throws; on
\* success the rows are in the table and the cardio row is appended when the
\* session has a truthy field.
AppendWorkoutDone(t, out) ==
  LET c == tasks[t] IN
  /\ UNCHANGED <<gwVars, applied, authVars>>
  /\ UNCHANGED <<used, offlineWrite>>
  /\ c.kind = "save" /\ c.pc = "appendW"
  /\ out \in Outcomes
  /\ IF out = "ok" THEN
       /\ remoteWorkout' = remoteWorkout \o WorkoutRows(formatDate(c.arg.date), c.arg.exercises)
       /\ IF HasCardio(c.arg) THEN
            /\ tasks' = [tasks EXCEPT ![t].pc = "appendC"]
            /\ lastOp' = NoOp
          ELSE
            /\ tasks' = [tasks EXCEPT ![t].pc = "reload"]
            /\ lastOp' = SaveOp(c.cDate, c.cOnline, TRUE, "sent", c.arg)
       /\ UNCHANGED <<syncQueue, error, isSaving>>
     ELSE
       /\ SaveFailed(t)
       /\ UNCHANGED remoteWorkout
  /\ UNCHANGED <<navOnline, events, isOnline, date, workout, pendingChanges, rendered,
                 loading, cache, lsPending, remoteCardio>>

\* updateWorkoutData after the 'cardio log' append: a failure throws too.
AppendCardioDone(t, out) ==
  LET c == tasks[t] IN
  /\ UNCHANGED <<gwVars, applied, authVars>>
  /\ UNCHANGED <<used, offlineWrite>>
  /\ c.kind = "save" /\ c.pc = "appendC"
  /\ out \in Outcomes
  /\ IF out = "ok" THEN
       /\ remoteCardio' = Append(remoteCardio, CardioRow(formatDate(c.arg.date), c.arg))
       /\ tasks' = [tasks EXCEPT ![t].pc = "reload"]
       /\ lastOp' = SaveOp(c.cDate, c.cOnline, TRUE, "sent", c.arg)
       /\ UNCHANGED <<syncQueue, error, isSaving>>
     ELSE
       /\ SaveFailed(t)
       /\ UNCHANGED remoteCardio
  /\ UNCHANGED <<navOnline, events, isOnline, date, workout, pendingChanges, rendered,
                 loading, cache, lsPending, remoteWorkout>>

\* await loadWorkoutData() at the end of handleSave and syncPendingChanges.
Reload(t) ==
  LET c == tasks[t] IN
  /\ UNCHANGED <<gwVars, applied, authVars>>
  /\ UNCHANGED <<used, offlineWrite>>
  /\ c.kind \in {"save", "sync"} /\ c.pc = "reload"
  /\ LoadStart(t, t, c.kind, c.cDate, c.cOnline)
  /\ UNCHANGED <<navOnline, events, isOnline, date, pendingChanges, rendered,
                 cache, lsPending, syncQueue, remoteWorkout, remoteCardio>>

\* ------------------------------------------------------------- drain
\* saveWorkoutData(change) = updateWorkoutData(change.date, change): the
\* change has no exercises field, so with navigator.onLine the call throws
\* in its try block (queued, rethrown); without it the call is queued and
\* returns.  TRUE when the call returns.
ApplyReturns == ~navOnline

\* One iteration of the loop of syncPendingChanges for task record c, which
\* is written to slot t; first for the iteration that follows
\* setIsSaving(true).
SyncIteration(t, c, first) ==
  LET ch == c.cPending[c.idx] IN
  /\ Len(syncQueue) < MaxSyncQueue
  /\ syncQueue' = Append(syncQueue, QueueEntry(ch.date, ch))
  /\ IF ApplyReturns THEN
       /\ tasks' = [tasks EXCEPT ![t] =
                      [c EXCEPT !.idx = c.idx + 1,
                                !.pc = IF c.idx = Len(c.cPending) THEN "clear" ELSE "apply"]]
       /\ isSaving' = (first \/ isSaving)
       /\ lastOp' = NoOp
       /\ UNCHANGED error
     ELSE
       /\ tasks' = [tasks EXCEPT ![t] = Idle]
       /\ isSaving' = FALSE
       /\ error' = "sync"
       /\ lastOp' = SyncOp("failed", c.idx, c.cPending)

SyncApply(t) ==
  LET c == tasks[t] IN
  /\ UNCHANGED <<gwVars, applied, authVars>>
  /\ UNCHANGED <<used, offlineWrite>>
  /\ c.kind = "sync" /\ c.pc = "apply"
  /\ SyncIteration(t, c, FALSE)
  /\ UNCHANGED <<navOnline, events, isOnline, date, workout, pendingChanges, rendered,
                 loading, cache, lsPending, remoteWorkout, remoteCardio>>

\* After the loop: setPendingChanges([]), removeItem('pendingChanges'), then
\* the reload.
SyncClear(t) ==
  LET c == tasks[t] IN
  /\ UNCHANGED <<gwVars, applied, authVars>>
  /\ UNCHANGED <<used, offlineWrite>>
  /\ c.kind = "sync" /\ c.pc = "clear"
  /\ pendingChanges' = <<>>
  /\ lsPending' = Absent
  /\ tasks' = [tasks EXCEPT ![t] = Task("sync", "reload", c.cDate, c.cOnline, <<>>, Absent, 0, <<>>)]
  /\ lastOp' = SyncOp("cleared", 0, c.cPending)
  /\ UNCHANGED <<navOnline, events, isOnline, date, workout, isSaving, loading, error,
                 rendered, cache, syncQueue, remoteWorkout, remoteCardio>>

\* ------------------------------------------------------------- events
\* The browser changes navigator.onLine and queues the matching event.
NetChange ==
  /\ UNCHANGED <<gwVars, applied, authVars>>
  /\ Len(events) < MaxEvents
  /\ used < MaxInputs
  /\ used' = used + 1
  /\ UNCHANGED offlineWrite
  /\ navOnline' = ~navOnline
  /\ events' = Append(events, IF navOnline THEN "offline" ELSE "online")
  /\ UNCHANGED <<isOnline, date, workout, pendingChanges, isSaving, loading, error,
                 rendered, cache, lsPending, syncQueue, remoteWorkout, remoteCardio, tasks>>
  /\ lastOp' = NoOp

handleOffline ==
  /\ UNCHANGED <<gwVars, applied, authVars>>
  /\ UNCHANGED <<used, offlineWrite>>
  /\ events # <<>> /\ Head(events) = "offline"
  /\ events' = Tail(events)
  /\ isOnline' = FALSE
  /\ UNCHANGED <<navOnline, date, workout, pendingChanges, isSaving, loading, error,
                 rendered, cache, lsPending, syncQueue, remoteWorkout, remoteCardio, tasks>>
  /\ lastOp' = NoOp

\* syncPendingChanges as handleOnline calls it: the guard reads the closure
\* of the render the listener was registered in.
syncPendingChanges ==
  IF ~rendered.isOnline \/ rendered.pendingChanges = <<>> THEN
    /\ lastOp' = NoOp
    /\ UNCHANGED <<syncQueue, tasks, isSaving, error>>
  ELSE
    \E t \in FreeIds :
      /\ t = CHOOSE x \in FreeIds : \A y \in FreeIds : x <= y
      /\ SyncIteration(t, Task("sync", "apply", rendered.date, rendered.isOnline,
                               rendered.pendingChanges, Absent, 1, <<>>), TRUE)

handleOnline ==
  /\ UNCHANGED <<gwVars, applied, authVars>>
  /\ UNCHANGED used
  /\ offlineWrite' = [d \in Dates |-> Absent]
  /\ events # <<>> /\ Head(events) = "online"
  /\ events' = Tail(events)
  /\ isOnline' = TRUE
  /\ syncPendingChanges
  /\ UNCHANGED <<navOnline, date, workout, pendingChanges, rendered, loading,
                 cache, lsPending, remoteWorkout, remoteCardio>>

\* ------------------------------------------------------------- renders
NextSlot == IF FreeIds = {} THEN 0 ELSE CHOOSE x \in FreeIds : \A y \in FreeIds : x <= y

\* React commits the pending state; the load effect runs when
\* loadWorkoutData changed identity (its dependencies are date and isOnline).
Render ==
  /\ UNCHANGED <<gwVars, applied, authVars>>
  /\ UNCHANGED <<used, offlineWrite>>
  /\ rendered # Snapshot(isOnline, date, pendingChanges, isSaving)
  /\ rendered' = Snapshot(isOnline, date, pendingChanges, isSaving)
  /\ IF rendered.isOnline # isOnline \/ rendered.date # date
       THEN LoadStart(0, NextSlot, "load", date, isOnline)
       ELSE lastOp' = NoOp /\ UNCHANGED <<workout, error, tasks, isSaving, loading>>
  /\ UNCHANGED <<navOnline, events, isOnline, date, pendingChanges,
                 cache, lsPending, syncQueue, remoteWorkout, remoteCardio>>

\* The date input (shown when not loading, with a workout and no error): setDate, the
\* render of the event, and the load effect for the new date.
setDate(d) ==
  /\ UNCHANGED <<gwVars, applied, authVars>>
  /\ used < MaxInputs
  /\ used' = used + 1
  /\ UNCHANGED offlineWrite
  /\ d \in Dates /\ d # rendered.date
  /\ ~loading /\ error = "none" /\ workout # Absent
  /\ date' = d
  /\ rendered' = [rendered EXCEPT !.date = d]
  /\ LoadStart(0, NextSlot, "load", d, rendered.isOnline)
  /\ UNCHANGED <<navOnline, events, isOnline, pendingChanges,
                 cache, lsPending, syncQueue, remoteWorkout, remoteCardio>>

\* ------------------------------------------------------------- system
Next ==
  \/ NetChange
  \/ handleOffline
  \/ handleOnline
  \/ Render
  \/ \E d \in Dates : setDate(d)
  \/ \E r \in AllInputs : handleSave(r)
  \/ \E t \in TaskIds, out \in {"ok", "fail"} : FetchWorkoutDone(t, out)
  \/ \E t \in TaskIds, out \in {"ok", "fail"} : FetchCardioDone(t, out)
  \/ \E t \in TaskIds, out \in {"ok", "fail"} : AppendWorkoutDone(t, out)
  \/ \E t \in TaskIds, out \in {"ok", "fail"} : AppendCardioDone(t, out)
  \/ \E t \in TaskIds : Reload(t)
  \/ \E t \in TaskIds : SyncApply(t)
  \/ \E t \in TaskIds : SyncClear(t)

Spec == Init /\ [][Next]_vars

\* ------------------------------------------------------------- gateway
\* The callback of the token client stores a new access token.
handleAuthClick ==
  /\ issued < MaxTokens
  /\ issued' = issued + 1
  /\ gapi_access_token' = issued + 1
  /\ lastCall' = NoRead
  /\ UNCHANGED <<service, calls>>
  /\ UNCHANGED <<trackerVars, applied, authVars>>

handleSignOut ==
  /\ gapi_access_token # NoToken
  /\ gapi_access_token' = NoToken
  /\ lastCall' = NoRead
  /\ UNCHANGED <<service, issued, calls>>
  /\ UNCHANGED <<trackerVars, applied, authVars>>

\* fetchSheetData up to its fetch, for call i at the given stage:
\* getAuthToken throws without a token (nothing is sent, getWorkoutData
\* rethrows), otherwise the request leaves with the token.
fetchSheetData(i, stage) ==
  IF gapi_access_token = NoToken THEN
    /\ calls' = [calls EXCEPT ![i] = NoCall]
    /\ lastCall' = ReadOp(stage, NoToken, 0, "No authentication token available")
  ELSE
    /\ calls' = [calls EXCEPT ![i] = Call(stage, gapi_access_token)]
    /\ lastCall' = NoRead

\* getWorkoutData(date) up to its first await.
getWorkoutData(i) ==
  /\ calls[i] = NoCall
  /\ fetchSheetData(i, "workout log")
  /\ UNCHANGED <<service, gapi_access_token, issued>>
  /\ UNCHANGED <<trackerVars, applied, authVars>>

\* localStorage.removeItem('gapi_access_token') of part_002's 401 branch.
removeItem(tok) == NoToken

\* The response to the request of call i.  200: getWorkoutData goes on to
\* the 'cardio log' (or returns after it).  Otherwise fetchSheetData
\* throws and getWorkoutData rethrows; part_002 first removes the token
\* on 401, googleSheets.ts has no such branch.
FetchResponse(i, status) ==
  LET c == calls[i] IN
  /\ c # NoCall /\ c.stage \in {"workout log", "cardio log"}
  /\ status \in {200, 401, 500}
  /\ IF status = 200 THEN
       /\ IF c.stage = "workout log"
            THEN fetchSheetData(i, "cardio log")
            ELSE /\ calls' = [calls EXCEPT ![i] = NoCall]
                 /\ lastCall' = ReadOp(c.stage, c.token, 200, "none")
       /\ UNCHANGED gapi_access_token
     ELSE IF service = "part_002" THEN
       /\ calls' = [calls EXCEPT ![i] = NoCall]
       /\ gapi_access_token' = IF status = 401 THEN removeItem(gapi_access_token)
                                               ELSE gapi_access_token
       /\ lastCall' = ReadOp(c.stage, c.token, status,
                             IF status = 401 THEN "Authentication expired"
                                             ELSE "API request failed")
     ELSE
       /\ calls' = [calls EXCEPT ![i] = NoCall]
       /\ lastCall' = ReadOp(c.stage, c.token, status, "Failed to fetch sheet data")
       /\ UNCHANGED gapi_access_token
  /\ UNCHANGED <<service, issued>>
  /\ UNCHANGED <<trackerVars, applied, authVars>>

\* updateCell(row, col, value) of part_002 up to its fetch: getAuthToken
\* throws without a token, otherwise the PUT leaves with the token.
updateCell(i) ==
  /\ service = "part_002"
  /\ calls[i] = NoCall
  /\ IF gapi_access_token = NoToken THEN
       /\ lastCall' = WriteOp(NoToken, 0, FALSE, "No authentication token available")
       /\ UNCHANGED calls
     ELSE
       /\ calls' = [calls EXCEPT ![i] = Call("cell", gapi_access_token)]
       /\ lastCall' = NoRead
  /\ UNCHANGED <<service, gapi_access_token, issued>>
  /\ UNCHANGED <<trackerVars, applied, authVars>>

\* The response to the PUT of call i: the store writes the cell on 200 only;
\* updateCell awaits the fetch and returns without looking at the response.
CellResponse(i, status) ==
  LET c == calls[i] IN
  /\ c # NoCall /\ c.stage = "cell"
  /\ status \in {200, 401, 500}
  /\ calls' = [calls EXCEPT ![i] = NoCall]
  /\ lastCall' = WriteOp(c.token, status, status = 200, "none")
  /\ UNCHANGED <<service, gapi_access_token, issued>>
  /\ UNCHANGED <<trackerVars, applied, authVars>>

\* The gateway on its own: either version of the service, no token stored
\* yet, the tracker at rest.
GatewayInit ==
  /\ service \in Services
  /\ GatewayIdle
  /\ applied = NoApply
  /\ AuthAtRest
  /\ navOnline = TRUE
  /\ events = <<>>
  /\ isOnline = TRUE
  /\ date = "2024-03-14"
  /\ workout = Absent
  /\ pendingChanges = <<>>
  /\ isSaving = FALSE
  /\ loading = FALSE
  /\ error = "none"
  /\ rendered = Snapshot(TRUE, "2024-03-14", <<>>, FALSE)
  /\ cache = [d \in Dates |-> Absent]
  /\ lsPending = Absent
  /\ syncQueue = <<>>
  /\ remoteWorkout = <<>>
  /\ remoteCardio = <<>>
  /\ tasks = [t \in TaskIds |-> Idle]
  /\ lastOp = NoOp
  /\ used = 0
  /\ offlineWrite = [d \in Dates |-> Absent]

GatewayNext ==
  \/ handleAuthClick
  \/ handleSignOut
  \/ \E i \in CallIds : getWorkoutData(i)
  \/ \E i \in CallIds, status \in {200, 401, 500} : FetchResponse(i, status)
  \/ \E i \in CallIds : updateCell(i)
  \/ \E i \in CallIds, status \in {200, 401, 500} : CellResponse(i, status)

GatewaySpec == GatewayInit /\ [][GatewayNext]_vars

\* ------------------------------------------------------------- sign-in
\* WorkoutTracker with GoogleAuth (GoogleAuth.tsx) mounted in it; the date
\* and the connectivity stay as they were at mount.
\*
\* A state setter of the tracker was called with a value that is not the
\* state: loading, error and isAuthenticated compare by value; setWorkout
\* gets a new object from JSON.parse or getWorkoutData every time.
Changed ==
  \/ loading' # loading
  \/ error' # error
  \/ isAuthenticated' # isAuthenticated
  \/ (lastOp'.op = "load" /\ lastOp'.result = "shown")
Schedule == renderDue' = (renderDue \/ Changed)

\* A read can start: offline it sends nothing, online it needs a free task.
CanLoad == ~rendered.isOnline \/ NextSlot # 0

\* handleAuthStatusChange(signedIn): setIsAuthenticated, and
\* loadWorkoutData when signed in.
handleAuthStatusChange(signedIn) ==
  /\ isAuthenticated' = signedIn
  /\ IF signedIn
       THEN CanLoad /\ LoadStart(0, NextSlot, "load", rendered.date, rendered.isOnline)
     ELSE lastOp' = NoOp /\ UNCHANGED <<workout, error, tasks, isSaving, loading>>

\* The effect of GoogleAuth: its dependency is the prop onAuthStatusChange.
\* With a token in localStorage it reports the status to the tracker.
authEffect ==
  /\ effects # <<>> /\ Head(effects) = "auth"
  /\ effects' = Tail(effects)
  /\ IF gapi_access_token # NoToken THEN handleAuthStatusChange(TRUE)
     ELSE /\ lastOp' = NoOp
          /\ UNCHANGED <<isAuthenticated, workout, error, tasks, isSaving, loading>>
  /\ Schedule
  /\ UNCHANGED <<gwVars, applied, used, offlineWrite>>
  /\ UNCHANGED <<navOnline, events, isOnline, date, pendingChanges, rendered,
                 cache, lsPending, syncQueue, remoteWorkout, remoteCardio>>

\* The load effect of the tracker: its dependency is loadWorkoutData, which
\* changes with date and isOnline only, so it runs once, at mount.
loadEffect ==
  /\ effects # <<>> /\ Head(effects) = "load"
  /\ effects' = Tail(effects)
  /\ CanLoad
  /\ LoadStart(0, NextSlot, "load", rendered.date, rendered.isOnline)
  /\ UNCHANGED isAuthenticated
  /\ Schedule
  /\ UNCHANGED <<gwVars, applied, used, offlineWrite>>
  /\ UNCHANGED <<navOnline, events, isOnline, date, pendingChanges, rendered,
                 cache, lsPending, syncQueue, remoteWorkout, remoteCardio>>

\* React renders the tracker after the scheduled effects have run.  The
\* render creates a new handleAuthStatusChange (it is not memoized), so the
\* prop of GoogleAuth changes and its effect is scheduled again.
AuthRender ==
  /\ renderDue /\ effects = <<>>
  /\ renderDue' = FALSE
  /\ effects' = <<"auth">>
  /\ lastOp' = NoOp
  /\ UNCHANGED <<gwVars, applied, used, offlineWrite, isAuthenticated>>
  /\ UNCHANGED <<navOnline, events, isOnline, date, workout, pendingChanges, isSaving,
                 loading, error, rendered, cache, lsPending, syncQueue, remoteWorkout,
                 remoteCardio, tasks>>

\* The callback of the token client: the token is stored and the status
\* reported.
onAccessToken ==
  /\ gapi_access_token = NoToken
  /\ issued < MaxTokens
  /\ issued' = issued + 1
  /\ gapi_access_token' = issued + 1
  /\ handleAuthStatusChange(TRUE)
  /\ Schedule
  /\ UNCHANGED <<service, calls, lastCall, applied, used, offlineWrite, effects>>
  /\ UNCHANGED <<navOnline, events, isOnline, date, pendingChanges, rendered,
                 cache, lsPending, syncQueue, remoteWorkout, remoteCardio>>

\* handleSignOut of GoogleAuth: the token is removed and the status reported.
onSignOut ==
  /\ gapi_access_token # NoToken
  /\ gapi_access_token' = NoToken
  /\ handleAuthStatusChange(FALSE)
  /\ Schedule
  /\ UNCHANGED <<service, issued, calls, lastCall, applied, used, offlineWrite, effects>>
  /\ UNCHANGED <<navOnline, events, isOnline, date, pendingChanges, rendered,
                 cache, lsPending, syncQueue, remoteWorkout, remoteCardio>>

\* The responses of the two fetches of a read.
AuthWorkoutResponse(t, out) ==
  /\ UNCHANGED <<gwVars, applied, isAuthenticated, effects>>
  /\ workoutResponse(t, out)
  /\ Schedule
AuthCardioResponse(t, out) ==
  /\ UNCHANGED <<gwVars, applied, isAuthenticated, effects>>
  /\ cardioResponse(t, out)
  /\ Schedule

\* The two components after their first render: the effect of GoogleAuth
\* (the child) runs before the load effect of the tracker.  localStorage
\* may hold a token and a record of the date from an earlier session.
AuthInit ==
  /\ navOnline \in BOOLEAN
  /\ events = <<>>
  /\ isOnline = navOnline
  /\ date = "2024-03-14"
  /\ workout = Absent
  /\ pendingChanges = <<>>
  /\ isSaving = FALSE
  /\ loading = TRUE
  /\ error = "none"
  /\ rendered = Snapshot(navOnline, "2024-03-14", <<>>, FALSE)
  /\ cache \in {[d \in Dates |-> Absent],
                [d \in Dates |-> IF d = "2024-03-14"
                                   THEN Workout(NoDate, <<"squat">>, "") ELSE Absent]}
  /\ lsPending = Absent
  /\ syncQueue = <<>>
  /\ remoteWorkout = <<>>
  /\ remoteCardio = <<>>
  /\ tasks = [t \in TaskIds |-> Idle]
  /\ lastOp = NoOp
  /\ used = 0
  /\ offlineWrite = [d \in Dates |-> Absent]
  /\ service = "part_002"
  /\ issued \in {0, 1}
  /\ gapi_access_token = issued
  /\ calls = [i \in CallIds |-> NoCall]
  /\ lastCall = NoRead
  /\ applied = NoApply
  /\ isAuthenticated = FALSE
  /\ renderDue = FALSE
  /\ effects = <<"auth", "load">>

AuthNext ==
  \/ authEffect
  \/ loadEffect
  \/ AuthRender
  \/ onAccessToken
  \/ onSignOut
  \/ \E t \in TaskIds, out \in {"ok", "fail"} : AuthWorkoutResponse(t, out)
  \/ \E t \in TaskIds, out \in {"ok", "fail"} : AuthCardioResponse(t, out)

\* React runs every scheduled effect and render, and every fetch settles.
AuthFairness ==
  /\ WF_vars(authEffect)
  /\ WF_vars(loadEffect)
  /\ WF_vars(AuthRender)
  /\ \A t \in TaskIds : WF_vars(\E out \in {"ok", "fail"} : AuthWorkoutResponse(t, out))
  /\ \A t \in TaskIds : WF_vars(\E out \in {"ok", "fail"} : AuthCardioResponse(t, out))

AuthSpec == AuthInit /\ [][AuthNext]_vars /\ AuthFairness

\* ------------------------------------------------------------- codec
\* Cell texts are sequences of one-character strings.
DigitChars == <<"0", "1", "2", "3", "4", "5", "6", "7", "8", "9">>
IsDigit(c) == \E n \in 1..10 : DigitChars[n] = c
DigitVal(c) == (CHOOSE n \in 1..10 : DigitChars[n] = c) - 1
IsSpace(c) == c \in {" ", "\t"}

\* Number.prototype.toString for a natural number.
RECURSIVE toString(_)
toString(n) ==
  IF n < 10 THEN <<DigitChars[n + 1]>>
  ELSE toString(n \div 10) \o <<DigitChars[(n % 10) + 1]>>

\* String.prototype.trim
RECURSIVE trimStart(_)
trimStart(s) == IF s # <<>> /\ IsSpace(Head(s)) THEN trimStart(Tail(s)) ELSE s
RECURSIVE trimEnd(_)
trimEnd(s) ==
  IF s # <<>> /\ IsSpace(s[Len(s)]) THEN trimEnd(SubSeq(s, 1, Len(s) - 1)) ELSE s
trim(s) == trimEnd(trimStart(s))

\* String.prototype.includes and split for a one-character separator.
includes(s, c) == \E i \in 1..Len(s) : s[i] = c
RECURSIVE split(_, _)
split(s, sep) ==
  IF ~includes(s, sep) THEN <<s>>
  ELSE LET i == CHOOSE k \in 1..Len(s) : s[k] = sep /\ \A j \in 1..(k - 1) : s[j] # sep
       IN <<SubSeq(s, 1, i - 1)>> \o split(SubSeq(s, i + 1, Len(s)), sep)

\* parseInt: leading white space is skipped, the longest prefix of digits is
\* read; NaN when there is none.
NaN == -1
RECURSIVE DigitPrefix(_)
DigitPrefix(s) ==
  IF s # <<>> /\ IsDigit(Head(s)) THEN <<Head(s)>> \o DigitPrefix(Tail(s)) ELSE <<>>
RECURSIVE ValueOf(_)
ValueOf(ds) ==
  IF ds = <<>> THEN 0 ELSE 10 * ValueOf(SubSeq(ds, 1, Len(ds) - 1)) + DigitVal(ds[Len(ds)])
parseInt(s) ==
  LET ds == DigitPrefix(trimStart(s)) IN IF ds = <<>> THEN NaN ELSE ValueOf(ds)

\* `${n}` for the result of parseInt.
Template(n) == IF n = NaN THEN <<"N", "a", "N">> ELSE toString(n)

\* normalizeDate(dateStr) of the service version v.  Both trim and keep the
\* last of the parts separated by " ".  googleSheets.ts then renders
\* parseInt of the first two parts around "/"; part_002 drops a third part
\* when there is one and returns the text otherwise.
normalizeDate(v, raw) ==
  IF raw = <<>> THEN <<>>
  ELSE
    LET t == trim(raw)
        ps == split(t, " ")
        tok == IF Len(ps) > 1 THEN ps[Len(ps)] ELSE t
        parts == split(tok, "/")
    IN IF ~includes(tok, "/") THEN tok
       ELSE IF v = "googleSheets.ts"
         THEN Template(parseInt(parts[1])) \o <<"/">> \o Template(parseInt(parts[2]))
       ELSE IF Len(parts) = 3 THEN parts[1] \o <<"/">> \o parts[2]
       ELSE tok

\* The date cells tried: month m and day d, each with or without a leading
\* zero, with or without a weekday before and a year after, with or without
\* white space around.
Weekday(on) == IF on THEN <<"T", "h", "u", " ">> ELSE <<>>
Year(on) == IF on THEN <<"/", "2", "0", "2", "4">> ELSE <<>>
Padded(n, zero) == IF zero THEN <<"0">> \o toString(n) ELSE toString(n)
Spaced(s, on) == IF on THEN <<" ">> \o s \o <<" ">> ELSE s
DateText(m, d, zm, zd, wd, yr, sp) ==
  Spaced(Weekday(wd) \o Padded(m, zm) \o <<"/">> \o Padded(d, zd) \o Year(yr), sp)

\* The key of month m and day d.
Key(m, d) == toString(m) \o <<"/">> \o toString(d)

\* Cell texts without "/".
PlainTexts == { <<"1", "2", "1", "2">>, <<" ", "1", "2", "1", "2", " ">>,
                <<"r", "e", "s", "t">>, <<"\t", "r", "e", "s", "t">> }

\* The row filter of getWorkoutData, for 'workout log' (column G) and
\* 'cardio log' (column F) alike: a cell with text whose normalizeDate is
\* the key.
rowMatches(v, cell, key) == cell # <<>> /\ normalizeDate(v, cell) = key

\* The date test of updateWorkoutData's row discovery: googleSheets.ts
\* normalizes the cell, part_002 compares the cell itself.
discovers(v, cell, key) ==
  IF v = "googleSheets.ts" THEN normalizeDate(v, cell) = key ELSE cell = key

IsLetter(c) == ~IsDigit(c) /\ ~IsSpace(c) /\ c # "/"

\* targetDate.match(/(\d{1,2}\/\d{1,2})/): the leftmost match, each group
\* as long as it can be; <<>> for null.
DigitsAt(t, i, n) == i >= 1 /\ i + n - 1 <= Len(t) /\ \A k \in i..(i + n - 1) : IsDigit(t[k])
MatchAt(t, i, a, b) ==
  /\ DigitsAt(t, i, a)
  /\ i + a <= Len(t) /\ t[i + a] = "/"
  /\ DigitsAt(t, i + a + 1, b)
targetMatch(t) ==
  LET starts == {i \in 1..Len(t) : \E a, b \in 1..2 : MatchAt(t, i, a, b)} IN
  IF starts = {} THEN <<>>
  ELSE LET i == CHOOSE x \in starts : \A y \in starts : x <= y
           a == IF \E b \in 1..2 : MatchAt(t, i, 2, b) THEN 2 ELSE 1
           b == IF MatchAt(t, i, a, 2) THEN 2 ELSE 1
       IN SubSeq(t, i, i + a + b)

\* rowDate.trim().replace(/^[A-Za-z]{3}\s+/, '').replace(/\/\d{4}$/, '')
dropWeekday(s) ==
  IF Len(s) >= 4 /\ IsLetter(s[1]) /\ IsLetter(s[2]) /\ IsLetter(s[3]) /\ IsSpace(s[4])
  THEN trimStart(SubSeq(s, 4, Len(s))) ELSE s
dropYear(s) ==
  IF Len(s) >= 5 /\ s[Len(s) - 4] = "/" /\ DigitsAt(s, Len(s) - 3, 4)
  THEN SubSeq(s, 1, Len(s) - 5) ELSE s
cleanRowDate(rowDate) == dropYear(dropWeekday(trim(rowDate)))

\* matchesDate(rowDate, targetDate) of googleSheets.js on cell texts.
matchesDateText(rowDate, targetDate) ==
  /\ rowDate # <<>>
  /\ targetMatch(targetDate) # <<>>
  /\ cleanRowDate(rowDate) = targetMatch(targetDate)

\* String.fromCharCode(n): the capital letters are the codes 65..90.
Letters == <<"A", "B", "C", "D", "E", "F", "G", "H", "I", "J", "K", "L", "M",
             "N", "O", "P", "Q", "R", "S", "T", "U", "V", "W", "X", "Y", "Z">>
fromCharCode(n) == IF n \in 65..90 THEN Letters[n - 64] ELSE "chr" \o ToString(n)

\* getColumnLetter(col) of googleSheets.ts: the loop prepends the letter of
\* col % 26 and goes on with floor(col / 26) - 1 while col >= 0.
RECURSIVE getColumnLetter(_)
getColumnLetter(col) ==
  IF col < 0 THEN <<>>
  ELSE getColumnLetter((col \div 26) - 1) \o <<fromCharCode(65 + (col % 26))>>

\* The column letter of a positional write: getColumnLetter in
\* googleSheets.ts, String.fromCharCode(65 + col) in updateCell of part_002.
colLetter(v, col) ==
  IF v = "googleSheets.ts" THEN getColumnLetter(col) ELSE <<fromCharCode(65 + col)>>

\* The columns updateWorkoutData writes: three cells for each of the sets,
\* from column 14 on, and the cells of the cardio row.
SetColumns == {14 + (3 * k) + j : k \in 0..2, j \in 0..2}
CardioColumns == {8, 11, 12, 16, 17, 24, 63}

\* A row is its cells by zero-based column; '' is the empty text.  A set
\* has natural reps, weight and rir, whose texts have no decimal point, so
\* that parseFloat reads what parseInt reads.
RowLength == 38
Columns == 0..(RowLength - 1)
EmptyRow == [c \in Columns |-> <<>>]
Set(reps, weight, rir) == [reps |-> reps, weight |-> weight, rir |-> rir]
\* row[c]: the cell's text, undefined at an index the row does not have
\* (the store leaves out the empty cells at the end of a row).  undefined
\* is falsy and parseInt and parseFloat of it are NaN.
Undefined == <<"undefined value">>
Cell(row, c) == IF c \in DOMAIN row THEN row[c] ELSE Undefined
Truthy(text) == text # <<>> /\ text # Undefined
OrZero(n) == IF n = NaN THEN 0 ELSE n
parseFloat(s) == parseInt(s)

\* !isNaN(Number(text)): digits, possibly with white space around ("" and
\* blank text are the number 0).
IsNumber(text) == \A i \in 1..Len(trim(text)) : IsDigit(trim(text)[i])

\* The row updateWorkoutData appends for an exercise without notes: the key
\* in column G, the name in column I, the number of sets in column N and
\* the sets from column O on, three cells each.  The array of 38 cells
\* grows when a set is assigned past its end.
SetCell(set, j) ==
  toString(IF j = 0 THEN set.reps ELSE IF j = 1 THEN set.weight ELSE set.rir)
encodeRow(key, name, sets) ==
  [c \in 0..(IF 13 + (3 * Len(sets)) > RowLength - 1
               THEN 13 + (3 * Len(sets)) ELSE RowLength - 1) |->
     IF c = 6 THEN key
     ELSE IF c = 8 THEN name
     ELSE IF c = 13 THEN toString(Len(sets))
     ELSE IF c >= 14 /\ c < 14 + (3 * Len(sets))
       THEN SetCell(sets[((c - 14) \div 3) + 1], (c - 14) % 3)
     ELSE <<>>]

\* formatSheetData of types/workout.ts: one row for each set, with its
\* cells in columns N, O and P and no other cell, and the cardio row after
\* them.
CardioRowLength == 65
CardioSession(modality) ==
  [modality |-> modality, minutes |-> 0, seconds |-> 0, rpe |-> 0,
   workRest |-> <<>>, watts |-> 0, notes |-> <<>>]
cardioRow(cardioData) ==
  [c \in 0..(CardioRowLength - 1) |->
     CASE c = 8 -> cardioData.modality
       [] c = 11 -> toString(cardioData.minutes)
       [] c = 12 -> toString(cardioData.seconds)
       [] c = 16 -> toString(cardioData.rpe)
       [] c = 17 -> cardioData.workRest
       [] c = 24 -> toString(cardioData.watts)
       [] c = 64 -> cardioData.notes
       [] OTHER -> <<>>]
RECURSIVE exerciseRows(_)
exerciseRows(exerciseData) ==
  IF exerciseData = <<>> THEN <<>>
  ELSE << [c \in Columns |->
             IF c \in 13..15 THEN SetCell(Head(exerciseData), c - 13) ELSE <<>>] >>
       \o exerciseRows(Tail(exerciseData))
formatSheetData(exerciseData, cardioData) ==
  exerciseRows(exerciseData) \o <<cardioRow(cardioData)>>

\* The set read from the three cells at column g.
SetAt(row, g) ==
  Set(OrZero(parseInt(Cell(row, g))), OrZero(parseFloat(Cell(row, g + 1))), OrZero(parseInt(Cell(row, g + 2))))

\* The sets of a row as getWorkoutData of googleSheets.ts and
\* parseExerciseRow of part_002 read them: the triplets at O, R and U whose
\* reps cell has text that is a number.
NumericReps(row, g) == Truthy(Cell(row, g)) /\ IsNumber(Cell(row, g))
AnyCell(row, g) == Truthy(Cell(row, g)) \/ Truthy(Cell(row, g + 1)) \/ Truthy(Cell(row, g + 2))
SomeReps(row, g) == Truthy(Cell(row, g))
Keeps(test, row, g) ==
  CASE test = "NumericReps" -> NumericReps(row, g)
    [] test = "AnyCell" -> AnyCell(row, g)
    [] test = "SomeReps" -> SomeReps(row, g)
RECURSIVE SetsWhere(_, _, _)
SetsWhere(row, groups, test) ==
  IF groups = <<>> THEN <<>>
  ELSE (IF Keeps(test, row, Head(groups)) THEN <<SetAt(row, Head(groups))>> ELSE <<>>)
       \o SetsWhere(row, Tail(groups), test)

None == [kind |-> "null"]
Entry(name, sets) == [kind |-> "exercise", name |-> name, sets |-> sets]

\* The exercise of a row in googleSheets.ts (lines 111-138) and part_002.
parseExerciseRow(row) ==
  IF ~Truthy(Cell(row, 8)) THEN None
  ELSE Entry(trim(Cell(row, 8)), SetsWhere(row, <<14, 17, 20>>, "NumericReps"))

\* The body of the loop of processWorkoutRows in googleSheets.js: as many
\* triplets as column N says, from column O on, each kept when any of its
\* cells has text; no entry without a set.
GroupsOf(n) == [k \in 1..n |-> 14 + (3 * (k - 1))]
processWorkoutRow(row) ==
  LET totalSets == OrZero(parseInt(Cell(row, 13)))
      sets == SetsWhere(row, GroupsOf(totalSets), "AnyCell")
  IN IF ~Truthy(Cell(row, 8)) \/ sets = <<>> THEN None ELSE Entry(Cell(row, 8), sets)

\* parseWorkoutRow of types/workout.ts: the triplets at N, Q and T whose
\* reps cell has text.
parseWorkoutRow(row) ==
  IF ~Truthy(Cell(row, 8)) THEN None
  ELSE Entry(Cell(row, 8), SetsWhere(row, <<13, 16, 19>>, "SomeReps"))

\* The sets of the entries decoded from a sequence of rows.
Decode(decoder, row) ==
  CASE decoder = "parseExerciseRow" -> parseExerciseRow(row)
    [] decoder = "processWorkoutRows" -> processWorkoutRow(row)
    [] decoder = "parseWorkoutRow" -> parseWorkoutRow(row)
RECURSIVE SetsOfRows(_, _)
SetsOfRows(rows, decoder) ==
  IF rows = <<>> THEN <<>>
  ELSE (IF Decode(decoder, Head(rows)) = None THEN <<>>
        ELSE Decode(decoder, Head(rows)).sets)
       \o SetsOfRows(Tail(rows), decoder)

\* The set lists tried: up to MaxSets sets with values of SetValues.
SetValues == {0, 12}
Sets == {Set(r, w, i) : r \in SetValues, w \in SetValues, i \in SetValues}
RECURSIVE SetListsOf(_)
SetListsOf(n) ==
  IF n = 0 THEN {<<>>}
  ELSE SetListsOf(n - 1) \cup
       {Append(q, x) : q \in {l \in SetListsOf(n - 1) : Len(l) = n - 1}, x \in Sets}
SetLists == SetListsOf(MaxSets)
ExerciseName == <<"s", "q", "u", "a", "t">>
Modality == <<"b", "i", "k", "e">>

\* The tracker and the gateway at rest, for the specification of the codec.
TrackerAtRest ==
  /\ navOnline = TRUE
  /\ events = <<>>
  /\ isOnline = TRUE
  /\ date = "2024-03-14"
  /\ workout = Absent
  /\ pendingChanges = <<>>
  /\ isSaving = FALSE
  /\ loading = FALSE
  /\ error = "none"
  /\ rendered = Snapshot(TRUE, "2024-03-14", <<>>, FALSE)
  /\ cache = [d \in Dates |-> Absent]
  /\ lsPending = Absent
  /\ syncQueue = <<>>
  /\ remoteWorkout = <<>>
  /\ remoteCardio = <<>>
  /\ tasks = [t \in TaskIds |-> Idle]
  /\ lastOp = NoOp
  /\ used = 0
  /\ offlineWrite = [d \in Dates |-> Absent]

\* normalizeDate applied to a date cell, or to a cell without "/".  Each
\* run of the codec applies one function to one input.
ApplyNormalizeDate ==
  /\ applied = NoApply
  /\ \E v \in Services :
       \/ \E m \in 1..MaxMonth, d \in 1..MaxDay, zm, zd, wd, yr, sp \in BOOLEAN :
            applied' = [fn |-> "normalizeDate", version |-> v, kind |-> "date",
                        month |-> m, day |-> d,
                        arg |-> DateText(m, d, zm, zd, wd, yr, sp),
                        res |-> normalizeDate(v, DateText(m, d, zm, zd, wd, yr, sp))]
       \/ \E x \in PlainTexts :
            applied' = [fn |-> "normalizeDate", version |-> v, kind |-> "plain",
                        arg |-> x, res |-> normalizeDate(v, x)]
  /\ UNCHANGED <<trackerVars, gwVars, authVars>>

\* The places that match a row's date cell against the key of a query
\* date, applied to the same cell and key: the key of the cell's own date or
\* the key of another date.
ApplyMatchers ==
  /\ applied = NoApply
  /\ \E m \in 1..MaxMonth, d \in 1..MaxDay, zm, zd, wd, yr, sp, same \in BOOLEAN :
       LET cell == DateText(m, d, zm, zd, wd, yr, sp)
           key == IF same THEN Key(m, d) ELSE Key((m % MaxMonth) + 1, d)
       IN applied' = [fn |-> "matches", arg |-> cell, key |-> key,
                      read |-> [v \in Services |-> rowMatches(v, cell, key)],
                      update |-> [v \in Services |-> discovers(v, cell, key)],
                      matchesDate |-> matchesDateText(cell, key)]
  /\ UNCHANGED <<trackerVars, gwVars, authVars>>

\* The column letter of a positional write to column col, in each version.
ApplyColumnLetter ==
  /\ applied = NoApply
  /\ \E col \in 0..MaxColumn :
       applied' = [fn |-> "columnLetter", arg |-> col,
                   res |-> [v \in Services |-> colLetter(v, col)]]
  /\ UNCHANGED <<trackerVars, gwVars, authVars>>

\* A set list encoded and decoded again: by the row updateWorkoutData of
\* googleSheets.js appends and the decoders of the services, and by
\* formatSheetData and parseWorkoutRow of types/workout.ts.
ApplyRoundTrip ==
  /\ applied = NoApply
  /\ \E sets \in SetLists, modality \in {<<>>, Modality} :
       LET row == encodeRow(Key(3, 14), ExerciseName, sets) IN
       applied' = [fn |-> "roundTrip", arg |-> sets, modality |-> modality,
                   res |-> [parseExerciseRow |-> SetsOfRows(<<row>>, "parseExerciseRow"),
                            processWorkoutRows |-> SetsOfRows(<<row>>, "processWorkoutRows"),
                            formatSheetData |->
                              SetsOfRows(formatSheetData(sets, CardioSession(modality)),
                                         "parseWorkoutRow")]]
  /\ UNCHANGED <<trackerVars, gwVars, authVars>>

\* The triplets a decoder keeps, by the column of their reps cell:
\* getWorkoutData and parseExerciseRow look at O, R and U, processWorkoutRows
\* at as many triplets from O on as column N says, parseWorkoutRow at N, Q
\* and T.
RECURSIVE GroupsWhere(_, _, _)
GroupsWhere(row, groups, test) ==
  IF groups = <<>> THEN <<>>
  ELSE (IF Keeps(test, row, Head(groups)) THEN <<Head(groups)>> ELSE <<>>)
       \o GroupsWhere(row, Tail(groups), test)
Decoders == {"parseExerciseRow", "processWorkoutRows", "parseWorkoutRow"}
setGroups(decoder) ==
  IF decoder = "parseWorkoutRow" THEN <<13, 16, 19>> ELSE <<14, 17, 20>>
keptGroups(decoder, row) ==
  CASE decoder = "parseExerciseRow" -> GroupsWhere(row, <<14, 17, 20>>, "NumericReps")
    [] decoder = "processWorkoutRows" ->
         GroupsWhere(row, GroupsOf(OrZero(parseInt(Cell(row, 13)))), "AnyCell")
    [] decoder = "parseWorkoutRow" -> GroupsWhere(row, <<13, 16, 19>>, "SomeReps")

\* The rows decoded: a name or none in column I, and in the columns N to T
\* no text, a number, text that is no number, or a space.
NameCells == {<<>>, ExerciseName}
CountCells == {<<>>, <<"1">>, <<"2">>, <<"x">>}
RepsCells == {<<>>, <<" ">>, <<"x">>, <<"8">>}
WeightCells == {<<>>, <<"5", "0">>}
RirCells == {<<>>, <<"2">>}
SheetRow(name, c13, c14, c15, c16, c17, c18, c19) ==
  [c \in Columns |->
     CASE c = 8 -> name
       [] c = 13 -> c13
       [] c = 14 -> c14
       [] c = 15 -> c15
       [] c = 16 -> c16
       [] c = 17 -> c17
       [] c = 18 -> c18
       [] c = 19 -> c19
       [] OTHER -> <<>>]

\* A row of the session log that matched the date, decoded by each decoder.
ApplyDecode ==
  /\ applied = NoApply
  /\ \E name \in NameCells, c13 \in CountCells, c14 \in RepsCells,
        c15 \in WeightCells, c16 \in RirCells, c17 \in RepsCells \ {<<" ">>},
        c18 \in WeightCells, c19 \in RirCells :
       LET row == SheetRow(name, c13, c14, c15, c16, c17, c18, c19) IN
       applied' = [fn |-> "decode", arg |-> row,
                   res |-> [d \in Decoders |->
                              [entry |-> Decode(d, row),
                               kept |-> keptGroups(d, row)]]]
  /\ UNCHANGED <<trackerVars, gwVars, authVars>>


\* ------------------------------------------------- update row discovery
\* updateWorkoutData, up to the writes to 'workout log': the rows are
\* fetched, a row is looked for for each exercise of the record, and the
\* cells of the exercise's sets are written to the row found.  A row is
\* its date cell (column G) and its name cell (column I).
MaxSheetRows == 2    \* rows of 'workout log' fetched for an update
MaxExercises == 2    \* exercises of the record of an update

LowerLetters == <<"a", "b", "c", "d", "e", "f", "g", "h", "i", "j", "k", "l", "m",
                  "n", "o", "p", "q", "r", "s", "t", "u", "v", "w", "x", "y", "z">>
toLowerCase(s) ==
  [i \in 1..Len(s) |->
     IF \E k \in 1..26 : Letters[k] = s[i]
       THEN LowerLetters[CHOOSE k \in 1..26 : Letters[k] = s[i]]
     ELSE s[i]]

LogRow(dateCell, nameCell) == [date |-> dateCell, name |-> nameCell]
Exercise(name, sets, notes) == [name |-> name, sets |-> sets, notes |-> notes]
Max(S) == CHOOSE x \in S : \A y \in S : y <= x
Min(S) == CHOOSE x \in S : \A y \in S : x <= y

\* dateRows[name] of googleSheets.ts: the 1-based index of the last row
\* whose normalized date is parsedDate and whose trimmed, lowercased name is
\* the name; 0 for undefined.
dateRows(workoutRows, parsedDate, name) ==
  LET found == {i \in 1..Len(workoutRows) :
                  /\ normalizeDate("googleSheets.ts", workoutRows[i].date) = parsedDate
                  /\ toLowerCase(trim(workoutRows[i].name)) = name}
  IN IF found = {} THEN 0 ELSE Max(found)

\* workoutRows.findIndex(...) + 1 of part_002: the first row whose date cell
\* is parsedDate and whose name cell is the name; 0 for -1.
findIndex(workoutRows, parsedDate, name) ==
  LET found == {i \in 1..Len(workoutRows) :
                  workoutRows[i].date = parsedDate /\ workoutRows[i].name = name}
  IN IF found = {} THEN 0 ELSE Min(found)

\* A discovery that takes the row after the last one when it finds none.
rowIndexOrNew(v, workoutRows, parsedDate, exercise) ==
  LET r == IF v = "googleSheets.ts"
             THEN dateRows(workoutRows, parsedDate, toLowerCase(exercise.name))
           ELSE findIndex(workoutRows, parsedDate, exercise.name)
  IN IF r = 0 THEN Len(workoutRows) + 1 ELSE r

\* The row an update of the exercise is written to in version v, 0 for none.
rowIndex(v, workoutRows, parsedDate, exercise) ==
  IF v = "googleSheets.ts"
    THEN dateRows(workoutRows, parsedDate, toLowerCase(exercise.name))
  ELSE findIndex(workoutRows, parsedDate, exercise.name)

\* The cell writes of an exercise to row r: three cells for each set from
\* column 14 on, and in googleSheets.ts the notes in column AL when there
\* are notes.
CellUpdate(v, r, col, value) ==
  [range |-> colLetter(v, col) \o toString(r), row |-> r, col |-> col, value |-> value]
RECURSIVE setUpdates(_, _, _, _)
setUpdates(v, r, sets, setIndex) ==
  IF setIndex >= Len(sets) THEN <<>>
  ELSE LET baseCol == 14 + (setIndex * 3)
           set == sets[setIndex + 1]
       IN << CellUpdate(v, r, baseCol, toString(set.reps)),
             CellUpdate(v, r, baseCol + 1, toString(set.weight)),
             CellUpdate(v, r, baseCol + 2, toString(set.rir)) >>
          \o setUpdates(v, r, sets, setIndex + 1)
exerciseUpdates(v, r, exercise) ==
  IF r = 0 THEN <<>>
  ELSE setUpdates(v, r, exercise.sets, 0)
       \o (IF v = "googleSheets.ts" /\ exercise.notes # <<>>
             THEN <<CellUpdate(v, r, 37, exercise.notes)>> ELSE <<>>)

\* The loop over the exercises of the record: for each exercise the row
\* found and the cells written for it.
RECURSIVE workoutUpdates(_, _, _, _)
workoutUpdates(v, workoutRows, parsedDate, exercises) ==
  IF exercises = <<>> THEN <<>>
  ELSE LET r == rowIndex(v, workoutRows, parsedDate, Head(exercises))
       IN << [rowIndex |-> r, updates |-> exerciseUpdates(v, r, Head(exercises))] >>
          \o workoutUpdates(v, workoutRows, parsedDate, Tail(exercises))

\* The requests the writes are sent with: one values:batchUpdate with all
\* the cells in googleSheets.ts (none when there is no cell), one PUT for
\* each cell in part_002.
RECURSIVE Flat(_)
Flat(perExercise) ==
  IF perExercise = <<>> THEN <<>>
  ELSE Head(perExercise).updates \o Flat(Tail(perExercise))
requests(v, perExercise) ==
  LET cells == Flat(perExercise)
  IN IF v = "googleSheets.ts"
       THEN (IF cells = <<>> THEN <<>> ELSE <<[method |-> "batchUpdate", data |-> cells]>>)
     ELSE [i \in 1..Len(cells) |-> [method |-> "PUT", data |-> <<cells[i]>>]]

\* The sheets and records tried.
DateCells == {<<"3", "/", "1", "4">>, <<"0", "3", "/", "1", "4">>, <<"3", "/", "1", "5">>}
ExerciseNames ==
  {<<"S", "q", "u", "a", "t">>, <<"s", "q", "u", "a", "t">>, <<"b", "e", "n", "c", "h">>}
LogRows ==
  {LogRow(d, <<"S", "q", "u", "a", "t">>) : d \in DateCells}
    \cup {LogRow(<<"3", "/", "1", "4">>, <<"s", "q", "u", "a", "t", " ">>)}
Exercises ==
  {Exercise(n, <<Set(8, 50, 2)>>, <<>>) : n \in ExerciseNames}
    \cup {Exercise(<<"s", "q", "u", "a", "t">>, <<>>, <<"o", "k">>)}
RECURSIVE SeqsOf(_, _)
SeqsOf(S, n) ==
  IF n = 0 THEN {<<>>}
  ELSE SeqsOf(S, n - 1) \cup
       {Append(q, x) : q \in {l \in SeqsOf(S, n - 1) : Len(l) = n - 1}, x \in S}

\* An update of a record for the date 3/14 against a fetched sheet, in each
\* version.
ApplyUpdate ==
  /\ applied = NoApply
  /\ \E workoutRows \in SeqsOf(LogRows, MaxSheetRows),
        exercises \in SeqsOf(Exercises, MaxExercises) \ {<<>>} :
       applied' = [fn |-> "update", rows |-> workoutRows, key |-> Key(3, 14),
                   arg |-> exercises,
                   res |-> [v \in Services |->
                              LET per == workoutUpdates(v, workoutRows, Key(3, 14), exercises)
                              IN [exercises |-> per, requests |-> requests(v, per)]]]
  /\ UNCHANGED <<trackerVars, gwVars, authVars>>

\* A row with a name, a set count in column N and full triplets at some of
\* the first MaxTriplets places from column O on, decoded by getWorkoutData
\* and by processWorkoutRows.
MaxTriplets == 5     \* triplet places of a row that may hold cells
WideCounts == {<<>>, <<"3">>, <<"4">>, <<"8">>}
WideRow(count, filled) ==
  [c \in Columns |->
     IF c = 8 THEN ExerciseName
     ELSE IF c = 13 THEN count
     ELSE IF c >= 14 /\ (((c - 14) \div 3) + 1) \in filled
       THEN (IF (c - 14) % 3 = 0 THEN <<"8">>
             ELSE IF (c - 14) % 3 = 1 THEN <<"5", "0">> ELSE <<"2">>)
     ELSE <<>>]
ApplyDecodeWide ==
  /\ applied = NoApply
  /\ \E count \in WideCounts, filled \in SUBSET (1..MaxTriplets) :
       LET row == WideRow(count, filled) IN
       applied' = [fn |-> "decodeWide", arg |-> row, count |-> count, filled |-> filled,
                   res |-> [d \in {"parseExerciseRow", "processWorkoutRows"} |->
                              Decode(d, row)]]
  /\ UNCHANGED <<trackerVars, gwVars, authVars>>

\* The row updateWorkoutData of googleSheets.js appends for an exercise:
\* the cells of encodeRow and, assigned last, the notes in column AL.
appendRow(formattedDate, exercise) ==
  [encodeRow(formattedDate, exercise.name, exercise.sets) EXCEPT ![37] = exercise.notes]

\* A write of an exercise of 0 to MaxWriteSets sets to the session log: the
\* cells googleSheets.ts updates in the row found for it, and the row
\* googleSheets.js appends for it.
MaxWriteSets == 4    \* sets of the exercise of a write
RECURSIVE SetsOfLen(_)
SetsOfLen(n) == IF n = 0 THEN <<>> ELSE Append(SetsOfLen(n - 1), Set(8, 50, 2))
ApplyWrite ==
  /\ applied = NoApply
  /\ \E n \in 0..MaxWriteSets, notes \in {<<>>, <<"o", "k">>} :
       LET exercise == Exercise(ExerciseName, SetsOfLen(n), notes) IN
       applied' = [fn |-> "write", arg |-> exercise,
                   res |-> [update |-> exerciseUpdates("googleSheets.ts", 2, exercise),
                            append |-> appendRow(Key(3, 14), exercise)]]
  /\ UNCHANGED <<trackerVars, gwVars, authVars>>

\* ------------------------------------------------------------ remote read
\* The decoding half of getWorkoutData: the rows of 'workout log' and of
\* 'cardio log' as the store returned them (a row may be shorter than the
\* schema: the empty cells at its end are left out) to the record read.  A
\* method called on undefined raises a TypeError.
Raised == [kind |-> "raised"]
TypeError == <<"TypeError">>
trimOf(text) == IF text = Undefined THEN TypeError ELSE trim(text)
OrEmpty(text) == IF Truthy(text) THEN text ELSE <<>>
IntOrZero(text) == OrZero(parseInt(text))

\* The filter of the rows of a date: `if (!row[i]) return false` and
\* normalizeDate in googleSheets.ts, matchesDate in googleSheets.js.
dateMatches(v, cell, key) ==
  IF ~Truthy(cell) THEN FALSE
  ELSE IF v = "googleSheets.ts" THEN normalizeDate(v, cell) = key
  ELSE matchesDateText(cell, key)

\* A decoder that trims the name cell without testing it first.
readExerciseUnguarded(v, row) ==
  IF trimOf(Cell(row, 8)) = TypeError THEN Raised
  ELSE Entry(trimOf(Cell(row, 8)), SetsWhere(row, <<14, 17, 20>>, "NumericReps"))
         @@ [notes |-> OrEmpty(Cell(row, 37))]

\* The exercise of a matching row with its notes (column AL), or None, or
\* Raised.
readExercise(v, row) ==
  IF v = "googleSheets.ts"
    THEN IF ~Truthy(Cell(row, 8)) THEN None
         ELSE IF trimOf(Cell(row, 8)) = TypeError THEN Raised
         ELSE Entry(trimOf(Cell(row, 8)), SetsWhere(row, <<14, 17, 20>>, "NumericReps"))
                @@ [notes |-> OrEmpty(Cell(row, 37))]
  ELSE IF processWorkoutRow(row) = None THEN None
       ELSE processWorkoutRow(row) @@ [notes |-> OrEmpty(Cell(row, 37))]

\* The exercises of the rows of a date, in the order of the rows, or
\* <<Raised>> when the decoding of a row raised.
RECURSIVE readExercises(_, _, _)
readExercises(v, rows, key) ==
  IF rows = <<>> THEN <<>>
  ELSE LET row == Head(rows)
           rest == readExercises(v, Tail(rows), key)
           e == IF dateMatches(v, Cell(row, 6), key) THEN readExercise(v, row) ELSE None
       IN IF e = Raised \/ rest = <<Raised>> THEN <<Raised>>
          ELSE IF e = None THEN rest
          ELSE <<e>> \o rest
DataRows(v, rows) ==
  IF v = "googleSheets.ts" THEN rows ELSE SubSeq(rows, 2, Len(rows))

\* The cardio session of the first row of the date (rows.find), or the
\* empty session: the cells at the offsets of the version, the notes at 63
\* in googleSheets.ts and at 64 in googleSheets.js.
EmptySession ==
  [modality |-> <<>>, minutes |-> 0, seconds |-> 0, rpe |-> 0,
   workRest |-> <<>>, watts |-> 0, notes |-> <<>>]
notesIndex(v) == IF v = "googleSheets.ts" THEN 63 ELSE 64
readCardioRow(v, row) ==
  [modality |-> OrEmpty(Cell(row, 8)),
   minutes |-> IntOrZero(Cell(row, 11)),
   seconds |-> IntOrZero(Cell(row, 12)),
   rpe |-> IntOrZero(Cell(row, 16)),
   workRest |-> OrEmpty(Cell(row, 17)),
   watts |-> IntOrZero(Cell(row, 24)),
   notes |-> OrEmpty(Cell(row, notesIndex(v)))]
findCardioRow(v, cardioRows, key) ==
  LET rows == DataRows(v, cardioRows)
      found == {i \in 1..Len(rows) : dateMatches(v, Cell(rows[i], 5), key)}
  IN IF found = {} THEN 0
     ELSE Min(found) + (IF v = "googleSheets.ts" THEN 0 ELSE 1)
readCardio(v, cardioRows, key) ==
  IF findCardioRow(v, cardioRows, key) = 0 THEN EmptySession
  ELSE readCardioRow(v, cardioRows[findCardioRow(v, cardioRows, key)])

\* The rows the store returns for the range asked for: 'workout log'!A:AL
\* and 'cardio log'!A:BM in googleSheets.ts, A:Z of both sheets in
\* googleSheets.js.
rangeWidth(v, sheet) ==
  IF v = "googleSheets.ts" THEN (IF sheet = "workout log" THEN 38 ELSE 65) ELSE 26
values(v, sheet, grid) ==
  [i \in 1..Len(grid) |->
     [c \in {c \in DOMAIN grid[i] : c < rangeWidth(v, sheet)} |-> grid[i][c]]]

ReadVersions == {"googleSheets.ts", "googleSheets.js"}
readWorkout(v, workoutGrid, cardioGrid, key) ==
  LET workoutRows == values(v, "workout log", workoutGrid)
      cardioRows == values(v, "cardio log", cardioGrid)
      exercises == readExercises(v, DataRows(v, workoutRows), key)
  IN IF exercises = <<Raised>> THEN Raised
     ELSE [kind |-> "record", exercises |-> exercises,
           cardio |-> readCardio(v, cardioRows, key)]

\* The grids tried: no row at all, or a header and one row, cut after any
\* number of its cells.
Cut(row, n) == [c \in 0..(n - 1) |-> row[c]]
HeaderRow(dateColumn) ==
  [c \in Columns |-> IF c = dateColumn THEN <<"D", "a", "t", "e">> ELSE <<>>]
LogRowCells(dateCell, nameCell, repsCell) ==
  [c \in Columns |->
     CASE c = 6 -> dateCell
       [] c = 8 -> nameCell
       [] c = 13 -> <<"1">>
       [] c = 14 -> repsCell
       [] c = 15 -> <<"x">>
       [] c = 37 -> <<"o", "k">>
       [] OTHER -> <<>>]
CardioRowCells(dateCell, minutesCell) ==
  [c \in 0..(CardioRowLength - 1) |->
     CASE c = 5 -> dateCell
       [] c = 8 -> Modality
       [] c = 11 -> minutesCell
       [] c = 12 -> <<"3", "0">>
       [] c = 16 -> <<"7">>
       [] c = 17 -> <<"1", ":", "1">>
       [] c = 24 -> <<"2", "0", "0">>
       [] c = 63 -> <<"B", "L">>
       [] c = 64 -> <<"B", "M">>
       [] OTHER -> <<>>]
LogCuts == {0, 6, 7, 8, 9, 14, 15, 16, 37, 38}
CardioCuts == {0, 5, 6, 9, 12, 25, 26, 64, 65}
ReadDates == {<<>>, <<"3", "/", "1", "4">>, <<"T", "h", "u", " ", "3", "/", "1", "4">>}
LogGrids ==
  {<<>>} \cup
  {<<HeaderRow(6), Cut(LogRowCells(d, n, r), k)>> :
     d \in ReadDates, n \in {<<>>, ExerciseName}, r \in {<<"8">>, <<"x">>}, k \in LogCuts}
CardioGrids ==
  {<<>>} \cup
  {<<HeaderRow(5), Cut(CardioRowCells(d, m), k)>> :
     d \in {<<>>, <<"3", "/", "1", "4">>}, m \in {<<"2", "0">>, <<"x">>}, k \in CardioCuts}

\* A read of the date 3/14 from a grid of each sheet, in each version: the
\* session log with the empty cardio grid, or the cardio log with the empty
\* session log.
ApplyRead ==
  /\ applied = NoApply
  /\ \E workoutRows \in LogGrids, cardioRows \in CardioGrids :
       /\ workoutRows = <<>> \/ cardioRows = <<>>
       /\ applied' = [fn |-> "read", workoutRows |-> workoutRows,
                      cardioRows |-> cardioRows, key |-> Key(3, 14),
                      res |-> [v \in ReadVersions |->
                                 readWorkout(v, workoutRows, cardioRows, Key(3, 14))]]
  /\ UNCHANGED <<trackerVars, gwVars, authVars>>

\* ------------------------------------------------------- cardio log write
\* The cardio half of updateWorkoutData.  googleSheets.ts writes seven
\* cells of the first row whose date normalizes to the key; googleSheets.js
\* appends a row of 65 cells when some field of the session is truthy.
MaxCardioRows == 2   \* rows of 'cardio log' under the header
normalizeCell(cell) ==
  IF ~Truthy(cell) THEN <<>> ELSE normalizeDate("googleSheets.ts", cell)
cardioRowIndex(cardioRows, parsedDate) ==
  LET found == {i \in 1..Len(cardioRows) : normalizeCell(Cell(cardioRows[i], 5)) = parsedDate}
  IN IF found = {} THEN 0 ELSE Min(found)
cardioUpdates(cardio) ==
  << [col |-> 8, value |-> cardio.modality],
     [col |-> 11, value |-> toString(cardio.minutes)],
     [col |-> 12, value |-> toString(cardio.seconds)],
     [col |-> 16, value |-> toString(cardio.rpe)],
     [col |-> 17, value |-> cardio.workRest],
     [col |-> 24, value |-> toString(cardio.watts)],
     [col |-> 63, value |-> cardio.notes] >>

\* The row after the cells are written: a cell keeps its text unless one of
\* the updates names its column (the last of them when several do), and a
\* cell the row did not have and no update names is empty.
Written(row, updates, c) ==
  LET hits == {u \in 1..Len(updates) : updates[u].col = c}
  IN IF hits # {} THEN updates[Max(hits)].value
     ELSE IF c \in DOMAIN row THEN row[c] ELSE <<>>
LastColumn(row, updates) ==
  Max({c \in DOMAIN row : TRUE} \cup {updates[u].col : u \in 1..Len(updates)} \cup {0})
applyUpdates(row, updates) ==
  [c \in 0..LastColumn(row, updates) |-> Written(row, updates, c)]
updateCardio(cardioRows, parsedDate, cardio) ==
  LET r == cardioRowIndex(cardioRows, parsedDate)
  IN IF r = 0 THEN cardioRows
     ELSE [cardioRows EXCEPT ![r] = applyUpdates(cardioRows[r], cardioUpdates(cardio))]

\* googleSheets.js: Object.values(cardio).some(v => v), and the row appended.
SomeField(cardio) ==
  \/ cardio.modality # <<>> \/ cardio.minutes # 0 \/ cardio.seconds # 0
  \/ cardio.rpe # 0 \/ cardio.workRest # <<>> \/ cardio.watts # 0
  \/ cardio.notes # <<>>
appendCardioRow(formattedDate, cardio) ==
  [c \in 0..(CardioRowLength - 1) |->
     CASE c = 5 -> formattedDate
       [] c = 8 -> cardio.modality
       [] c = 11 -> toString(cardio.minutes)
       [] c = 12 -> toString(cardio.seconds)
       [] c = 16 -> toString(cardio.rpe)
       [] c = 17 -> cardio.workRest
       [] c = 24 -> toString(cardio.watts)
       [] c = 64 -> cardio.notes
       [] OTHER -> <<>>]
appendCardio(cardioRows, formattedDate, cardio) ==
  IF SomeField(cardio) THEN Append(cardioRows, appendCardioRow(formattedDate, cardio))
  ELSE cardioRows

\* The cardio logs and sessions tried.
OldCardioRow(dateCell) == CardioRowCells(dateCell, <<"2", "0">>)
CardioLogs ==
  {<<HeaderRow(5)>> \o rows : rows \in SeqsOf({OldCardioRow(d) : d \in DateCells}, MaxCardioRows)}
Sessions ==
  {[modality |-> m, minutes |-> n, seconds |-> 30, rpe |-> 7,
    workRest |-> <<"2", ":", "1">>, watts |-> 150, notes |-> t] :
     m \in {<<>>, Modality}, n \in {0, 45}, t \in {<<>>, <<"o", "k">>}}

\* A cardio session written for the date 3/14 and read again: updated and
\* read by googleSheets.ts, appended and read by googleSheets.js.
ApplyCardio ==
  /\ applied = NoApply
  /\ \E cardioRows \in CardioLogs, cardio \in Sessions :
       LET key == Key(3, 14)
           updated == updateCardio(cardioRows, key, cardio)
           appended == appendCardio(cardioRows, key, cardio)
       IN applied' =
            [fn |-> "cardio", rows |-> cardioRows, key |-> key, arg |-> cardio,
             res |-> [update |->
                        [rowIndex |-> cardioRowIndex(cardioRows, key),
                         rows |-> updated,
                         readIndex |-> findCardioRow("googleSheets.ts",
                                         values("googleSheets.ts", "cardio log", updated), key),
                         read |-> readCardio("googleSheets.ts",
                                    values("googleSheets.ts", "cardio log", updated), key)],
                      append |->
                        [rows |-> appended,
                         decoded |->
                           IF appended = cardioRows THEN EmptySession
                           ELSE readCardioRow("googleSheets.js",
                                  values("googleSheets.js", "cardio log",
                                         appended)[Len(appended)]),
                         readIndex |-> findCardioRow("googleSheets.js",
                                         values("googleSheets.js", "cardio log", appended), key),
                         read |-> readCardio("googleSheets.js",
                                    values("googleSheets.js", "cardio log", appended), key)]]]
  /\ UNCHANGED <<trackerVars, gwVars, authVars>>

\* ----------------------------------------------------------- record write
\* updateWorkoutData as a function of the two remote tables.  googleSheets.ts
\* writes the cells of the rows found in 'workout log' and of the row found
\* in 'cardio log'; googleSheets.js and the service of GoogleAuth.jsx append
\* one row for each exercise and one cardio row.
MaxSaveSets == 3     \* sets of a row and of an exercise of a saved record
WriteVersions == {"googleSheets.ts", "googleSheets.js", "GoogleAuth.jsx"}

\* row[6] and row[8] as dateRows reads them: normalizeDate of an absent or
\* empty date cell is '', and the key of an absent name cell is undefined.
KeyCells(workoutRows) ==
  [i \in 1..Len(workoutRows) |->
     LogRow(IF Truthy(Cell(workoutRows[i], 6)) THEN workoutRows[i][6] ELSE <<>>,
            Cell(workoutRows[i], 8))]
updateLog(workoutRows, parsedDate, exercises) ==
  LET cells == Flat(workoutUpdates("googleSheets.ts", KeyCells(workoutRows),
                                   parsedDate, exercises))
  IN [i \in 1..Len(workoutRows) |->
        applyUpdates(workoutRows[i], SelectSeq(cells, LAMBDA u : u.row = i))]
appendLog(workoutRows, formattedDate, exercises) ==
  workoutRows \o [i \in 1..Len(exercises) |-> appendRow(formattedDate, exercises[i])]
Tables(workoutRows, cardioRows) == [workout |-> workoutRows, cardio |-> cardioRows]
updateWorkoutData(v, tables, key, workoutData) ==
  IF v = "googleSheets.ts"
    THEN Tables(updateLog(tables.workout, key, workoutData.exercises),
                updateCardio(tables.cardio, key, workoutData.cardio))
  ELSE Tables(appendLog(tables.workout, key, workoutData.exercises),
              appendCardio(tables.cardio, key, workoutData.cardio))

\* The tables and records tried: a session log of a header and up to two
\* rows, the first one the row of squat on 3/14 with 0 to MaxSaveSets sets
\* with or without notes, or a row of another date; a record of no
\* exercise, of squat with 0 to MaxSaveSets sets with or without notes, or
\* of squat and bench.
RECURSIVE OldSets(_)
OldSets(n) == IF n = 0 THEN <<>> ELSE Append(OldSets(n - 1), Set(5, 40, 1))
OldNotes == <<"o", "l", "d">>
OtherDay == appendRow(Key(3, 15), Exercise(ExerciseName, OldSets(1), <<>>))
OldLogRows ==
  {appendRow(Key(3, 14), Exercise(ExerciseName, OldSets(n), notes)) :
     n \in 0..MaxSaveSets, notes \in {<<>>, OldNotes}} \cup {OtherDay}
SaveLogs ==
  {<<HeaderRow(6)>>} \cup {<<HeaderRow(6), r>> : r \in OldLogRows}
    \cup {<<HeaderRow(6), r, OtherDay>> : r \in OldLogRows}
SavedExercises ==
  {Exercise(ExerciseName, SetsOfLen(n), notes) :
     n \in 0..MaxSaveSets, notes \in {<<>>, <<"o", "k">>}}
Records ==
  {[exercises |-> es, cardio |-> c] :
     es \in {<<>>} \cup {<<e>> : e \in SavedExercises}
            \cup {<<Exercise(ExerciseName, SetsOfLen(1), <<>>),
                    Exercise(<<"b", "e", "n", "c", "h">>, SetsOfLen(1), <<>>)>>},
     c \in {EmptySession,
            [modality |-> Modality, minutes |-> 45, seconds |-> 30, rpe |-> 7,
             workRest |-> <<"2", ":", "1">>, watts |-> 150, notes |-> <<"o", "k">>]}}

\* A record written for the date 3/14 by each version, once and a second
\* time, and read again by googleSheets.ts after its update: the row found
\* for each exercise and the exercise read from that row.
ApplySave ==
  /\ applied = NoApply
  /\ \E workoutRows \in SaveLogs,
        cardioRows \in {<<HeaderRow(5)>>, <<HeaderRow(5), OldCardioRow(Key(3, 14))>>},
        workoutData \in Records :
       LET key == Key(3, 14)
           tables == Tables(workoutRows, cardioRows)
           once == [v \in WriteVersions |-> updateWorkoutData(v, tables, key, workoutData)]
           updated == once["googleSheets.ts"]
           fetched == values("googleSheets.ts", "workout log", updated.workout)
           rowOf == [i \in 1..Len(workoutData.exercises) |->
                       rowIndex("googleSheets.ts", KeyCells(workoutRows), key,
                                workoutData.exercises[i])]
       IN applied' =
            [fn |-> "save", tables |-> tables, key |-> key, arg |-> workoutData,
             res |-> [v \in WriteVersions |->
                        [once |-> once[v],
                         twice |-> updateWorkoutData(v, once[v], key, workoutData)]],
             rowOf |-> rowOf,
             readOf |-> [i \in 1..Len(workoutData.exercises) |->
                           IF rowOf[i] = 0 THEN None
                           ELSE readExercise("googleSheets.ts", fetched[rowOf[i]])],
             read |-> readWorkout("googleSheets.ts", updated.workout, updated.cardio, key)]
  /\ UNCHANGED <<trackerVars, gwVars, authVars>>

CodecInit ==
  /\ TrackerAtRest
  /\ service = "part_002"
  /\ GatewayIdle
  /\ applied = NoApply
  /\ AuthAtRest

CodecNext ==
  \/ ApplyNormalizeDate
  \/ ApplyMatchers
  \/ ApplyRoundTrip
  \/ ApplyDecode
  \/ ApplyUpdate
  \/ ApplyDecodeWide
  \/ ApplyWrite
  \/ ApplyRead
  \/ ApplyCardio
  \/ ApplySave
  \/ ApplyColumnLetter

CodecSpec == CodecInit /\ [][CodecNext]_vars

\* ------------------------------------------------------------- claims
\* The payloads of the durable queues.
RECURSIVE PayloadsOf(_, _)
PayloadsOf(q, field) ==
  IF q = <<>> THEN {} ELSE {Head(q)[field]} \cup PayloadsOf(Tail(q), field)

QueuedDurably(r) ==
  \/ r \in PayloadsOf(StoredPending, "workout")
  \/ r \in PayloadsOf(syncQueue, "workoutData")

\* The rows of record r are in the remote tables under the key of date d.
AppliedToRemote(r, d) ==
  /\ \A i \in 1..Len(r.exercises) :
       \E j \in 1..Len(remoteWorkout) :
         remoteWorkout[j] = [date |-> formatDate(d), name |-> r.exercises[i]]
  /\ HasCardio(r) =>
       \E j \in 1..Len(remoteCardio) : remoteCardio[j] = CardioRow(formatDate(d), r)

SameContent(a, b) ==
  /\ a # Absent /\ b # Absent
  /\ a.exercises = b.exercises /\ a.cardio = b.cardio

\* C1: when a save of record R for date D finishes, R has been applied to
\* the remote store for D or a pending change carrying R is in a durable
\* queue.
C1_NoWriteDiscarded ==
  lastOp.op = "save" =>
    \/ AppliedToRemote(lastOp.rec, lastOp.date)
    \/ QueuedDurably(lastOp.rec)

\* C2: a drain that fails on entry k leaves exactly entries k..n in the
\* queue, in memory and in storage.
C2_DrainKeepsFromFailure ==
  (lastOp.op = "sync" /\ lastOp.result = "failed") =>
    LET rest == SubSeq(lastOp.queue, lastOp.failedAt, Len(lastOp.queue)) IN
    /\ pendingChanges = rest
    /\ StoredPending = rest

\* C3 (its first step): an online event handled while the coordinator is
\* OFFLINE with a non-empty queue starts a drain.
C3_ReconnectStartsDrain ==
  [][ ( /\ events # <<>> /\ Head(events) = "online" /\ events' = Tail(events)
        /\ ~isOnline /\ pendingChanges # <<>> )
      => \/ \E t \in TaskIds : tasks'[t].kind = "sync"
         \/ lastOp'.op = "sync" ]_vars

C5_OfflineReadYourWrites ==
  (lastOp.op = "load" /\ ~lastOp.online /\ ~isOnline /\ offlineWrite[lastOp.date] # Absent) =>
    /\ lastOp.result = "shown"
    /\ lastOp.rec = offlineWrite[lastOp.date]

\* C6: a read that runs in OFFLINE state for a date without a cache entry
\* reports an error.
C6_OfflineMissFails ==
  (lastOp.op = "load" /\ ~lastOp.online /\ cache[lastOp.date] = Absent) =>
    lastOp.result = "error"

\* C7: a read that runs in OFFLINE state for a date with a cache entry
\* shows exactly that entry and starts no network call.
C7_OfflineHitFromCache ==
  [][ (lastOp'.op = "load" /\ ~lastOp'.online /\ cache[lastOp'.date] # Absent) =>
        /\ lastOp'.result = "shown"
        /\ lastOp'.rec = cache[lastOp'.date]
        /\ workout' = cache[lastOp'.date]
        /\ ~lastOp'.net
        /\ \A t \in TaskIds : tasks'[t] = tasks[t] \/ tasks'[t] = Idle
        /\ UNCHANGED <<cache, remoteWorkout, remoteCardio>> ]_vars

\* An offline read has just shown the cache entry of its date.
C7_OfflineReadShown ==
  /\ lastOp.op = "load" /\ ~lastOp.online /\ ~isOnline
  /\ lastOp.result = "shown" /\ ~lastOp.net
  /\ lastOp.rec = cache[lastOp.date] /\ workout = lastOp.rec

C9_RemoteReadRefreshesCache ==
  (lastOp.op = "load" /\ lastOp.online /\ lastOp.net /\ lastOp.failed = "none") =>
    /\ lastOp.result = "shown"
    /\ cache[lastOp.date] = lastOp.rec
    /\ workout = lastOp.rec

\* A remote read has just returned rows that an earlier save appended.
C9_RemoteRowsRead ==
  /\ lastOp.op = "load" /\ lastOp.net /\ lastOp.failed = "none"
  /\ lastOp.rec.exercises # <<>>
  /\ cache[lastOp.date] = lastOp.rec

\* C10: when an online write of R for D has succeeded and the save is over,
\* its reload having read both tables, the cache entry of D holds R.
C10_OnlineWriteRefreshesCache ==
  ( /\ lastOp.op = "load" /\ lastOp.via = "save" /\ lastOp.arg # Absent
    /\ lastOp.net /\ lastOp.failed = "none" ) =>
    SameContent(cache[lastOp.date], lastOp.arg)

\* C11: a read that finishes for a date that is no longer the selected one
\* leaves the displayed record as it is.
C11_LateReadDiscarded ==
  [][ (lastOp'.op = "load" /\ lastOp'.net /\ lastOp'.date # date') =>
        workout' = workout ]_vars

\* The drains that are between two applies or before their clear.
Draining == {t \in TaskIds : tasks[t].kind = "sync" /\ tasks[t].pc \in {"apply", "clear"}}

WritesInFlight(d) ==
  {t \in TaskIds : /\ tasks[t].kind = "save" /\ tasks[t].pc \in {"appendW", "appendC"}
                   /\ tasks[t].cDate = d}

\* C13: at no time are two remote writes for the same date in flight.
C13_WritesSerialized == \A d \in Dates : Cardinality(WritesInFlight(d)) <= 1

\* C14: when the queue is emptied, in memory or in storage, every entry it
\* held has been applied to the remote store.
C14_ClearedOnlyWhenApplied ==
  [][ ( \/ (StoredPending # <<>> /\ lsPending' = Absent)
        \/ (pendingChanges # <<>> /\ pendingChanges' = <<>>) ) =>
        /\ \A i \in 1..Len(StoredPending) :
             AppliedToRemote(StoredPending[i].workout, StoredPending[i].date)
        /\ \A i \in 1..Len(pendingChanges) :
             AppliedToRemote(pendingChanges[i].workout, pendingChanges[i].date) ]_vars

IsPrefix(p, q) == Len(p) <= Len(q) /\ SubSeq(q, 1, Len(p)) = p

\* C15: an offline write only appends: the entries the queue held stay in
\* front, unchanged and in their order, and the new change is one further
\* entry at the end, also when an entry for the same date is queued already.
C15_EnqueueAppends ==
  [][ (lastOp'.op = "save" /\ ~lastOp'.online) =>
        LET ch == Change(lastOp'.date, lastOp'.rec)
            q == StoredPending'
        IN /\ q = Append(rendered.pendingChanges, ch)
           /\ pendingChanges' = q
           /\ IsPrefix(StoredPending, q) /\ IsPrefix(pendingChanges, q)
           /\ q[Len(q)] = ch ]_vars

\* A second offline write for a date has just been queued behind the first.
C15_TwoEntriesSameDate ==
  /\ lastOp.op = "save" /\ ~lastOp.online /\ lastOp.result = "enqueued"
  /\ Len(StoredPending) >= 2
  /\ StoredPending[Len(StoredPending)] = Change(lastOp.date, lastOp.rec)
  /\ StoredPending[Len(StoredPending) - 1].date = lastOp.date
  /\ pendingChanges = StoredPending

\* The last entry of queue q for date d (q has one).
LastFor(q, d) ==
  q[CHOOSE i \in 1..Len(q) :
      /\ q[i].date = d
      /\ \A j \in (i + 1)..Len(q) : q[j].date # d]

\* C16: when a drain has applied every entry of its queue, the remote store
\* holds for each date the record of the last change queued for it.
C16_DrainLeavesLastChange ==
  (lastOp.op = "sync" /\ lastOp.result = "cleared") =>
    \A d \in Dates :
      (\E i \in 1..Len(lastOp.queue) : lastOp.queue[i].date = d) =>
        AppliedToRemote(LastFor(lastOp.queue, d).workout, d)

\* C17: when a drain stops at a failed apply, the tracker is offline
\* afterwards, so that later writes are queued rather than sent.
C17_FailedDrainGoesOffline ==
  (lastOp.op = "sync" /\ lastOp.result = "failed") => ~isOnline

\* A write handed to the service for sending: a save task starts.
WriteSent == \E t \in TaskIds : tasks[t] = Idle /\ tasks'[t].kind = "save"

\* C18: from handleOffline until the next handleOnline (isOnline false) no
\* write is handed to the service; each is queued in pendingChanges.
C18_NoSendWhileOffline == [][ ~isOnline => ~WriteSent ]_vars

\* C19: a read for which no token could be obtained ends in the error, never
\* in a shown record.
C19_AuthErrorSurfaced ==
  (lastOp.op = "load" /\ lastOp.failed = "auth") =>
    /\ lastOp.result = "error"
    /\ error = "load"

\* C20: a read answered with 401 raises an error and leaves no token in
\* localStorage (so that the next getAuthToken throws); a read answered
\* with another non-success status raises an error and leaves the token.
C20_ExpiryInvalidatesToken ==
  [][ (lastCall'.op = "read" /\ lastCall'.status \in {401, 500}) =>
        /\ lastCall'.raised # "none"
        /\ gapi_access_token' = IF lastCall'.status = 401 THEN NoToken
                                                          ELSE gapi_access_token ]_vars

\* C21: a single-cell write that the store answered with a non-success
\* status (the cell is not written) raises an error.
C21_FailedCellWriteRaises ==
  (lastCall.op = "write" /\ lastCall.status \in {401, 500}) =>
    lastCall.raised # "none"

\* The rows a step added at the end of a table.
Added(old, new) == SubSeq(new, Len(old) + 1, Len(new))

\* C22: a step appends a row to a table only when the table had no row for
\* that key: (date, exercise name) in 'workout log', the date in 'cardio log'.
C22_AppendOnlyWhenNoRow ==
  [][ /\ \A i \in 1..Len(Added(remoteWorkout, remoteWorkout')) :
           \A j \in 1..Len(remoteWorkout) :
             ~ ( /\ remoteWorkout[j].date = Added(remoteWorkout, remoteWorkout')[i].date
                 /\ remoteWorkout[j].name = Added(remoteWorkout, remoteWorkout')[i].name )
      /\ \A i \in 1..Len(Added(remoteCardio, remoteCardio')) :
           \A j \in 1..Len(remoteCardio) :
             remoteCardio[j].date # Added(remoteCardio, remoteCardio')[i].date ]_vars

\* C23: normalizeDate of a date cell for month m and day d, whatever its
\* weekday prefix, leading zeros, year suffix and surrounding white space, is
\* the key "m/d"; a cell without "/" comes back trimmed and unchanged.
C23_NormalizeYieldsKey ==
  (applied.fn = "normalizeDate") =>
    IF applied.kind = "date"
    THEN applied.res = Key(applied.month, applied.day)
    ELSE applied.res = trim(applied.arg)

\* C24: every place that matches a row's date cell against a query date
\* accepts the row exactly when the normalized cell equals the key of the
\* query date.
C24_MatchersAgree ==
  (applied.fn = "matches") =>
    LET accepted == normalizeDate("googleSheets.ts", applied.arg) = applied.key IN
    /\ \A v \in Services : applied.read[v] = accepted /\ applied.update[v] = accepted
    /\ applied.matchesDate = accepted

\* The spreadsheet letters of a zero-based column index below 702.
SheetLetters(col) ==
  IF col < 26 THEN <<Letters[col + 1]>>
  ELSE <<Letters[col \div 26], Letters[(col % 26) + 1]>>

\* C25: the column letters of a positional write are the spreadsheet letters
\* of the zero-based column index: for every index of googleSheets.ts's
\* getColumnLetter, and for every column updateCell of part_002 is called
\* with.
C25_ColumnLetters ==
  (applied.fn = "columnLetter") =>
    /\ applied.res["googleSheets.ts"] = SheetLetters(applied.arg)
    /\ applied.arg \in SetColumns \cup CardioColumns =>
         applied.res["part_002"] = SheetLetters(applied.arg)

\* C26: a list of at most 3 sets, encoded into the cells of a row and decoded
\* from them, comes back equal, whichever encoder and decoder of the
\* session log is used.
C26_CodecRoundTrip ==
  (applied.fn = "roundTrip") =>
    /\ applied.res.parseExerciseRow = applied.arg
    /\ applied.res.processWorkoutRows = applied.arg
    /\ applied.res.formatSheetData = applied.arg

\* C27: in a decoded exercise a triplet whose reps cell is blank or is no
\* number contributes no set, whatever its weight and rir cells hold, and a
\* triplet whose reps cell is a number contributes a set, for each decoder
\* of the session log and each of the triplets of its layout.
BlankCell(text) == trim(text) = <<>>
NumericCell(text) ==
  /\ ~BlankCell(text)
  /\ \A i \in 1..Len(trim(text)) : IsDigit(trim(text)[i])
InSeq(x, s) == \E i \in 1..Len(s) : s[i] = x
C27_RepsCellDecidesSet ==
  (applied.fn = "decode" /\ applied.arg[8] # <<>>) =>
    \A d \in Decoders : \A i \in 1..3 :
      LET g == setGroups(d)[i]
          contributes == InSeq(g, applied.res[d].kept)
      IN contributes <=> NumericCell(applied.arg[g])

\* C28: a row of the session log that matched the date decodes to no
\* exercise entry exactly when its exercise-name cell is empty; a row with a
\* name gives one entry, also when none of its triplets gives a set.
C28_EntryIffNamed ==
  (applied.fn = "decode") =>
    \A d \in {"parseExerciseRow", "processWorkoutRows"} :
      (applied.res[d].entry = None) <=> (applied.arg[8] = <<>>)

\* C29: on the update path an exercise for which the sheet has no row with
\* the same normalized date and the same lowercased name is skipped: no
\* cell is written for it, no request appends a row or writes beyond the
\* rows fetched, and the other exercises of the record get the rows and the
\* cells they get in the record without it.
HasRow(rows, key, name) ==
  \E i \in 1..Len(rows) :
    /\ normalizeDate("googleSheets.ts", rows[i].date) = key
    /\ toLowerCase(rows[i].name) = toLowerCase(name)
Without(s, i) == SubSeq(s, 1, i - 1) \o SubSeq(s, i + 1, Len(s))
RECURSIVE CellsOf(_)
CellsOf(reqs) ==
  IF reqs = <<>> THEN <<>> ELSE Head(reqs).data \o CellsOf(Tail(reqs))
Skipped(v, i) ==
  LET out == applied.res[v]
      sent == CellsOf(out.requests)
  IN /\ out.exercises[i].rowIndex = 0
     /\ out.exercises[i].updates = <<>>
     /\ \A q \in 1..Len(out.requests) : out.requests[q].method # "append"
     /\ \A c \in 1..Len(sent) : sent[c].row \in 1..Len(applied.rows)
     /\ sent = Flat(Without(out.exercises, i))
     /\ Without(out.exercises, i) =
          workoutUpdates(v, applied.rows, applied.key, Without(applied.arg, i))
C29_MissingRowSkipped ==
  (applied.fn = "update") =>
    \A v \in Services : \A i \in 1..Len(applied.arg) :
      ~HasRow(applied.rows, applied.key, applied.arg[i].name) => Skipped(v, i)

\* C29, amended: the exercise is skipped when no row has the normalized
\* date and, once trimmed and lowercased, the lowercased name of the
\* exercise.
HasTrimmedRow(rows, key, name) ==
  \E i \in 1..Len(rows) :
    /\ normalizeDate("googleSheets.ts", rows[i].date) = key
    /\ toLowerCase(trim(rows[i].name)) = toLowerCase(name)
C29_UndiscoveredRowSkipped ==
  (applied.fn = "update") =>
    \A v \in Services : \A i \in 1..Len(applied.arg) :
      ~HasTrimmedRow(applied.rows, applied.key, applied.arg[i].name) => Skipped(v, i)

\* A record whose first exercise has no row and whose second exercise is
\* written to its row by both versions.
C29_witness ==
  /\ applied.fn = "update"
  /\ Len(applied.arg) = 2
  /\ ~HasTrimmedRow(applied.rows, applied.key, applied.arg[1].name)
  /\ \A v \in Services :
       /\ applied.res[v].exercises[1].updates = <<>>
       /\ applied.res[v].exercises[2].updates # <<>>
       /\ applied.res[v].requests # <<>>

\* C30: the row discovery of an update selects a row for an exercise
\* exactly when the row's date normalizes to the key of the date and the
\* row's name is the exercise's name up to case, and every cell of the
\* exercise is written to the 1-based index of the row selected.
RowFor(rows, key, name, r) ==
  /\ normalizeDate("googleSheets.ts", rows[r].date) = key
  /\ toLowerCase(rows[r].name) = toLowerCase(name)
C30_DiscoverySelectsMatchingRow ==
  (applied.fn = "update") =>
    \A v \in Services : \A i \in 1..Len(applied.arg) :
      LET out == applied.res[v].exercises[i] IN
      /\ \A r \in 1..Len(applied.rows) :
           (out.rowIndex = r) <=> RowFor(applied.rows, applied.key, applied.arg[i].name, r)
      /\ \A u \in 1..Len(out.updates) :
           out.updates[u].row = out.rowIndex /\ out.rowIndex \in 1..Len(applied.rows)

\* C31: an exercise decoded from a row of the session log has at most 3
\* sets, whatever the row holds in its set-count cell and in the cells after
\* the third triplet.
C31_AtMostThreeSets ==
  (applied.fn = "decodeWide") =>
    \A d \in {"parseExerciseRow", "processWorkoutRows"} :
      applied.res[d] # None => Len(applied.res[d].sets) <= 3

\* C32: a write of an exercise to the session log changes only the cells of
\* the three reserved triplets (columns 14 to 22), the notes column and, on
\* append, the date, name and set-count cells, whatever number of sets the
\* exercise has.
TripletColumns == {14 + (3 * n) + j : n \in 0..2, j \in 0..2}
NotesColumn == 37
C32_WriteStaysInReservedCells ==
  (applied.fn = "write") =>
    /\ \A u \in 1..Len(applied.res.update) :
         applied.res.update[u].col \in TripletColumns \cup {NotesColumn}
    /\ \A c \in DOMAIN applied.res.append :
         applied.res.append[c] # <<>> =>
           c \in TripletColumns \cup {NotesColumn, 6, 8, 13}

\* C33: decoding never raises: for every grid of the session log and of the
\* cardio log, with rows cut short, rows without a date cell and cells that
\* hold no number, the read completes, and every number of the record read
\* is a natural number (0 for a missing or malformed cell) and every text is
\* a text ('' for a missing cell).
IsText(x) == x # Undefined /\ x # TypeError
C33_DecodingNeverRaises ==
  (applied.fn = "read") =>
    \A v \in ReadVersions :
      LET out == applied.res[v] IN
      /\ out # Raised
      /\ \A i \in 1..Len(out.exercises) :
           /\ IsText(out.exercises[i].name) /\ IsText(out.exercises[i].notes)
           /\ \A j \in 1..Len(out.exercises[i].sets) :
                /\ out.exercises[i].sets[j].reps \in Nat
                /\ out.exercises[i].sets[j].weight \in Nat
                /\ out.exercises[i].sets[j].rir \in Nat
      /\ out.cardio.minutes \in Nat /\ out.cardio.seconds \in Nat
      /\ out.cardio.rpe \in Nat /\ out.cardio.watts \in Nat
      /\ IsText(out.cardio.modality) /\ IsText(out.cardio.workRest)
      /\ IsText(out.cardio.notes)

\* A row of the session log cut after its weight cell, which holds no
\* number: both versions read the exercise with weight 0, rir 0 and no
\* notes.
C33_witness ==
  /\ applied.fn = "read"
  /\ Len(applied.workoutRows) = 2
  /\ DOMAIN applied.workoutRows[2] = 0..15
  /\ \A v \in ReadVersions :
       /\ applied.res[v] # Raised
       /\ Len(applied.res[v].exercises) = 1
       /\ applied.res[v].exercises[1].sets = <<Set(8, 0, 0)>>
       /\ applied.res[v].exercises[1].notes = <<>>

\* C34: the cardio codec decodes what it encodes: the session read after an
\* update is the session written, from the row the update wrote to, and the
\* row appended for a session decodes to that session, field by field.
C34_CardioRoundTrip ==
  (applied.fn = "cardio") =>
    /\ applied.res.update.rowIndex # 0 =>
         /\ applied.res.update.read = applied.arg
         /\ applied.res.update.readIndex = applied.res.update.rowIndex
    /\ applied.res.append.decoded = applied.arg

\* C35: while a pending change for date D is in the queue, a read of D from
\* the remote store replaces neither the cache entry of D nor the record
\* shown: the read of D after a reconnection leaves the locally written
\* record in place until the pending changes of D are applied.
PendingFor(q, d) == \E k \in 1..Len(q) : q[k].date = d
C35_PendingShieldsCache ==
  [][ \A d \in Dates :
        ( /\ PendingFor(pendingChanges, d) /\ PendingFor(pendingChanges', d)
          /\ lastOp'.op = "load" /\ lastOp'.net /\ lastOp'.date = d
          /\ lastOp'.failed \in {"none", "cardio"} ) =>
          /\ cache'[d] = cache[d]
          /\ workout' \in {workout, cache[d]} ]_vars

\* The number of pending entries in durable storage: the stored
\* pendingChanges and the service's syncQueue.
PendingEntries == Len(StoredPending) + Len(syncQueue)

\* C36: a failed attempt to apply a queued change during a drain does not
\* enqueue the change a second time: the number of pending entries in
\* durable storage does not grow by the failed step.
C36_FailedDrainKeepsOneCopy ==
  [][ (lastOp'.op = "sync" /\ lastOp'.result = "failed") =>
        PendingEntries' <= PendingEntries ]_vars

\* C37: applying the same write twice leaves the remote tables as applying
\* it once did, in every version of updateWorkoutData.
C37_WriteIdempotent ==
  applied.fn = "save" =>
    \A v \in WriteVersions : applied.res[v].twice = applied.res[v].once

\* C38: after an update by googleSheets.ts of a record whose exercises all
\* have a matching row, the exercise read from the row of each exercise has
\* the sets and the notes of the record.
C38_ReadAfterWrite ==
  ( /\ applied.fn = "save"
    /\ \A i \in 1..Len(applied.rowOf) : applied.rowOf[i] # 0 ) =>
    \A i \in 1..Len(applied.rowOf) :
      /\ applied.readOf[i] # None
      /\ applied.readOf[i].sets = applied.arg.exercises[i].sets
      /\ applied.readOf[i].notes = applied.arg.exercises[i].notes

\* A step that sends the first request of a remote read.
IssuesRead == \E t \in TaskIds : tasks[t] = Idle /\ tasks'[t] # Idle

\* C39: once a token is present (and the date and the connectivity do not
\* change), the tracker issues finitely many remote reads: from some point
\* on no step issues a read.
C39_Quiescence ==
  <>[](gapi_access_token # NoToken) => <>[][~IssuesRead]_vars

====
